---- MODULE Spec2Model ----
(***************************************************************************)
(* A model of the CSV <-> PostgreSQL transfer code of the repository:      *)
(*   csv_pg/column.py    Column, Column.from_spec, Column.merge            *)
(*   csv_pg/base.py      BaseContext (connection scope, get_table_columns, *)
(*                       merge_columns)                                    *)
(*   csv_pg/from_csv.py  FromCsvMixin (import job)                         *)
(*   csv_pg/to_csv.py    ToCsvMixin (export job)                           *)
(*   zut/db/base.py      DbAdapter (connection scope)                      *)
(*   zut/db/pg.py        BasePgAdapter.load_from_csv (upsert by staging)   *)
(*   zut/db/__init__.py  get_db_adapter                                    *)
(*   zut/db/mysql.py     MysqlAdapter.truncate_table, load_from_csv        *)
(*   zut/db/mssql.py     MssqlAdapter.truncate_table, load_from_csv,       *)
(*                       _paginate_parsed_query                            *)
(*                                                                         *)
(* The module holds several specifications over one set of variables; each *)
(* specification drives one group of variables and leaves the others at    *)
(* their initial value.                                                    *)
(*   SpecColumns  column construction and reconciliation                   *)
(*   Spec         one transfer job, or one use of a DbAdapter              *)
(*   SpecLoad     calls of load_from_csv on one adapter                    *)
(*   SpecParse    Column.from_spec, character by character                 *)
(*   SpecAdapter  get_db_adapter and one call on the adapter               *)
(*   SpecFile     the csv file of a job: csv settings, BOM, header, copy   *)
(*   SpecDdl      build_create_table_query on lists of columns             *)
(***************************************************************************)
EXTENDS Integers, Sequences, FiniteSets, TLC

VARIABLES
    \* ---- column construction and reconciliation (SpecColumns)
    target,        \* merge_columns' target_columns (mutated in place)
    other,         \* merge_columns' other_columns
    selfColumns,   \* self.columns
    result,        \* what merge_columns returned: (unmerged, unused) or (None, None)
    applications,  \* how many times merge_columns ran on (target, other)
    first,         \* the first application: the lists before and after it, its result
    lastMerge,     \* the last direct Column.merge call: self, other, result
    \* ---- one transfer job (Spec)
    job,           \* the job's arguments: kind, header, declared columns, flags
    pc,            \* the statement the job is at
    ctx,           \* attributes the job sets on itself (columns_default, noheader),
                   \* the COPY column list, whether merge_columns has run
    conn,          \* the backend connection: times opened, times closed, cursor
    db,            \* the database: the target table's columns, its schema
    file,          \* the CSV file: whether it exists, its header row
    statements,    \* the SQL statements sent to the backend so far, in order
    error,         \* the exception the job raised, if any
    \* ---- calls of BasePgAdapter.load_from_csv on one adapter (SpecLoad)
    load,          \* the arguments of the call and the target table's columns
    call,          \* the locals of the running call, the statements it issued,
                   \* its exception, the number of calls so far
    pgdb,          \* the backend: target rows, staging table, session state
    \* ---- one run of from_spec's split_options and option loop (SpecParse)
    scan,          \* the option tail, the locals of split_options, the outcome
    \* ---- one call on a zut adapter of some backend (SpecAdapter)
    op,            \* the backend, the call and its arguments, what it did
    \* ---- the csv file of one job: csv settings, BOM, header, copy (SpecFile)
    txt,           \* the arguments, the decoded file, txt_reader's position,
                   \* the csv settings, the header read and the data streamed
    \* ---- one call of build_create_table_query (SpecDdl)
    ddl            \* the columns, the pieces of the statement built

colVars == <<target, other, selfColumns, result, applications,
             first, lastMerge>>

jobVars == <<job, pc, ctx, conn, db, file, statements, error>>

loadVars == <<load, call, pgdb>>

otherVars == <<scan, op, txt, ddl>>

vars == <<colVars, jobVars, loadVars, otherVars>>

\* the part of the reconciliation state that only SpecColumns drives
mergeTrace == <<applications, first, lastMerge>>

\* a group of variables that a specification does not drive stays idle
JobIdle ==
    /\ job = "idle" /\ pc = "idle" /\ ctx = "idle" /\ conn = "idle"
    /\ db = "idle" /\ file = "idle" /\ statements = "idle" /\ error = "idle"

MergeTraceIdle == applications = 0 /\ first = "idle" /\ lastMerge = "idle"

LoadIdle == load = "idle" /\ call = "idle" /\ pgdb = "idle"

OtherIdle == scan = "idle" /\ op = "idle" /\ txt = "idle" /\ ddl = "idle"

(***************************************************************************)
(* Bounds of the model.                                                    *)
(***************************************************************************)
MaxTarget == 2
MaxOther == 2
MaxDeclared == 2
MaxUses == 2

(***************************************************************************)
(* Python values.                                                          *)
(***************************************************************************)
\* None, for the fields that hold a string or an enum member
None == "None"
\* None, for the fields that hold an int (precision, scale)
NoInt == 0 - 1

IsInt(x) == x # NoInt

(***************************************************************************)
(* csv_pg/column.py                                                        *)
(***************************************************************************)
TIMESTAMP_DEFAULT_PRECISION == 6
DEFAULT_SEQ == "__seq__"
DEFAULT_FILENAME == "'__filename__'"
DEFAULT_FILEPATH == "'__filepath__'"

\* class DataType(Enum): the members' values
DataType == {"text", "varchar", "char", "int", "bigint", "smallint",
             "decimal", "bool", "date", "timestamptz", "timestamp"}

Unsupported == "NotImplementedError"

\* Column.__init__, "Parse datatype": the enum member, or the raise
ParseDataType(datatype) ==
    IF datatype = None THEN None
    ELSE IF datatype \in DataType THEN datatype
    ELSE IF datatype = "character varying" THEN "varchar"
    ELSE IF datatype = "character" THEN "char"
    ELSE IF datatype = "integer" THEN "int"
    ELSE IF datatype = "boolean" THEN "bool"
    ELSE IF datatype = "numeric" THEN "decimal"
    ELSE IF datatype \in {"timestamp with time zone", "datetimetz"} THEN "timestamptz"
    ELSE IF datatype \in {"timestamp without time zone", "datetime"} THEN "timestamp"
    ELSE Unsupported

\* zut.slugen(value, separator='_') on the names of the model: lower case
Slugen(name) ==
    IF name = "A" THEN "a"
    ELSE IF name = "B" THEN "b"
    ELSE IF name = "C" THEN "c"
    ELSE name

\* the defaults the model draws from, and str.startswith on them
StartsWithNextval(default) == default \in {"nextval('t_id_seq'::regclass)"}
IsFilenameDefault(default) == default \in {DEFAULT_FILENAME, "'__filename__'::text"}
IsFilepathDefault(default) == default \in {DEFAULT_FILEPATH, "'__filepath__'::text"}

\* Column.__init__, "if default:" block
ParseDefault(default) ==
    IF default # None /\ default # ""
    THEN IF StartsWithNextval(default) THEN DEFAULT_SEQ
         ELSE IF IsFilenameDefault(default) THEN DEFAULT_FILENAME
         ELSE IF IsFilepathDefault(default) THEN DEFAULT_FILEPATH
         ELSE default
    ELSE None

\* Column.__init__ without its last statement (the not-null rule)
ColumnNoNotnullRule(name, datatype, precision, scale, notnull, primarykey, index, default, noslug) ==
    LET dt == ParseDataType(datatype)
        p0 == IF dt \in {"decimal", "char", "varchar", "timestamp", "timestamptz"}
              THEN precision ELSE NoInt
        p  == IF dt \in {"timestamp", "timestamptz"} /\ p0 = TIMESTAMP_DEFAULT_PRECISION
              THEN NoInt ELSE p0
    IN [name |-> name,
        slug |-> IF noslug THEN name ELSE Slugen(name),
        datatype |-> dt,
        precision |-> p,
        scale |-> IF dt = "decimal" THEN scale ELSE NoInt,
        notnull |-> notnull,
        primarykey |-> primarykey,
        index |-> index,
        default |-> ParseDefault(default)]

\* Column.__init__ (the datatype is one ParseDataType accepts)
Column(name, datatype, precision, scale, notnull, primarykey, index, default, noslug) ==
    LET dt == ParseDataType(datatype)
        p0 == IF dt \in {"decimal", "char", "varchar", "timestamp", "timestamptz"}
              THEN precision ELSE NoInt
        p  == IF dt \in {"timestamp", "timestamptz"} /\ p0 = TIMESTAMP_DEFAULT_PRECISION
              THEN NoInt ELSE p0
        d  == ParseDefault(default)
    IN [name |-> name,
        slug |-> IF noslug THEN name ELSE Slugen(name),
        datatype |-> dt,
        precision |-> p,
        scale |-> IF dt = "decimal" THEN scale ELSE NoInt,
        notnull |-> IF primarykey \/ d # None THEN TRUE ELSE notnull,
        primarykey |-> primarykey,
        index |-> index,
        default |-> d]

(***************************************************************************)
(* Column.from_spec, on an option tail already split into options.  An     *)
(* option is [kind, text, p, s]: kind is the branch of the if-chain that   *)
(* the option's text takes.                                                *)
(***************************************************************************)
Opt(kind, text, p, s) == [kind |-> kind, text |-> text, p |-> p, s |-> s]
Flag(word) == Opt(word, word, NoInt, NoInt)

\* the locals of from_spec before the loop over the options
SpecLocals0 ==
    [datatype |-> "text", precision |-> NoInt, scale |-> NoInt, notnull |-> FALSE,
     primarykey |-> FALSE, index |-> FALSE, default |-> None]

\* one turn of the option loop in which a data type resets what was parsed
ApplyOptionTypeResets(l, o) ==
    IF o.kind = "notnull" THEN [l EXCEPT !.notnull = TRUE]
    ELSE IF o.kind = "pk" THEN [l EXCEPT !.primarykey = TRUE]
    ELSE IF o.kind = "seq" THEN [l EXCEPT !.default = DEFAULT_SEQ]
    ELSE [SpecLocals0 EXCEPT !.datatype = o.text]

\* one turn of the loop over the options
ApplyOption(l, o) ==
    IF o.kind = "notnull" THEN [l EXCEPT !.notnull = TRUE]
    ELSE IF o.kind = "pk" THEN [l EXCEPT !.primarykey = TRUE]
    ELSE IF o.kind = "ix" THEN [l EXCEPT !.index = TRUE]
    ELSE IF o.kind = "seq" THEN [l EXCEPT !.default = DEFAULT_SEQ]
    ELSE IF o.kind = "filename" THEN [l EXCEPT !.default = DEFAULT_FILENAME]
    ELSE IF o.kind = "filepath" THEN [l EXCEPT !.default = DEFAULT_FILEPATH]
    ELSE IF o.kind = "default" THEN [l EXCEPT !.default = o.text]
    ELSE IF o.kind = "type_ps" THEN [l EXCEPT !.datatype = o.text, !.precision = o.p, !.scale = o.s]
    ELSE IF o.kind = "type_p" THEN [l EXCEPT !.datatype = o.text, !.precision = o.p]
    ELSE [l EXCEPT !.datatype = o.text]

RECURSIVE ApplyOptions(_, _)
ApplyOptions(l, opts) ==
    IF opts = <<>> THEN l ELSE ApplyOptions(ApplyOption(l, Head(opts)), Tail(opts))

\* whether from_spec raises NotImplementedError (from the constructor)
FromSpecRaises(opts) == ParseDataType(ApplyOptions(SpecLocals0, opts).datatype) = Unsupported

FromSpec(name, opts, noslug) ==
    LET l == ApplyOptions(SpecLocals0, opts)
    IN Column(name, l.datatype, l.precision, l.scale, l.notnull, l.primarykey, l.index,
              l.default, noslug)

\* Column.merge: self after self.merge(other)
Merge(self, o) ==
    LET s1 == IF o.datatype # None THEN [self EXCEPT !.datatype = o.datatype] ELSE self
        s2 == IF IsInt(o.precision) THEN [s1 EXCEPT !.precision = o.precision] ELSE s1
        s3 == IF IsInt(o.scale) THEN [s2 EXCEPT !.scale = o.scale] ELSE s2
        s4 == IF o.notnull THEN [s3 EXCEPT !.notnull = o.notnull] ELSE s3
        s5 == IF o.primarykey THEN [s4 EXCEPT !.primarykey = o.primarykey] ELSE s4
    IN IF o.index THEN [s5 EXCEPT !.index = o.index] ELSE s5

(***************************************************************************)
(* csv_pg/base.py: get_table_columns.  A table of the catalog is the list  *)
(* of its columns in ordinal position; a catalog column carries what the   *)
(* two queries return about it: the information_schema.columns row and the *)
(* indexes (pg_index rows) the column is part of.                          *)
(***************************************************************************)
CatCol(name, data_type, precision, scale, notnull, default, indexes) ==
    [name |-> name, data_type |-> data_type, precision |-> precision, scale |-> scale,
     notnull |-> notnull, default |-> default, indexes |-> indexes]

\* the loop over the rows of the first query
RowColumn(r, noslug) ==
    Column(r.name, r.data_type, r.precision, r.scale, r.notnull, FALSE, FALSE, r.default, noslug)

\* the loop over the rows of the second query, for the column the row names:
\* a row of the primary-key index marks primarykey, a row of another index
\* of one attribute marks index
MarkIndexes(c, r) ==
    LET c1 == IF "primary" \in r.indexes THEN [c EXCEPT !.primarykey = TRUE] ELSE c
    IN IF "single" \in r.indexes THEN [c1 EXCEPT !.index = TRUE] ELSE c1

\* whether the constructor raises on a row of the table
TableRaises(tab) == \E i \in 1..Len(tab) : ParseDataType(tab[i].data_type) = Unsupported

\* get_table_columns: absent stands for the None it returns when no row came
GetTableColumns(tab, noslug) ==
    IF tab = <<>> THEN [absent |-> TRUE, cols |-> <<>>]
    ELSE [absent |-> FALSE,
          cols |-> [i \in 1..Len(tab) |-> MarkIndexes(RowColumn(tab[i], noslug), tab[i])]]

(***************************************************************************)
(* csv_pg/base.py: merge_columns.  A dict is the sequence of its values in *)
(* key order (the order of each key's first insertion).                    *)
(***************************************************************************)
HasSlug(d, slug) == \E i \in 1..Len(d) : d[i].slug = slug

DictIndex(d, slug) == CHOOSE i \in 1..Len(d) : d[i].slug = slug

\* d[column.slug] = column
DictPut(d, c) ==
    IF HasSlug(d, c.slug) THEN [d EXCEPT ![DictIndex(d, c.slug)] = c] ELSE Append(d, c)

\* {column.slug: column for column in columns}
RECURSIVE DictOfFrom(_, _)
DictOfFrom(d, columns) ==
    IF columns = <<>> THEN d ELSE DictOfFrom(DictPut(d, Head(columns)), Tail(columns))

DictOf(columns) == DictOfFrom(<<>>, columns)

\* the dict after d.pop(slug, None)
DictPop(d, slug) ==
    IF HasSlug(d, slug)
    THEN LET k == DictIndex(d, slug)
         IN [i \in 1..(Len(d) - 1) |-> IF i < k THEN d[i] ELSE d[i + 1]]
    ELSE d

\* the loop over target_columns, from its i-th turn on
RECURSIVE MergeLoop(_, _, _, _)
MergeLoop(t, i, d, unm) ==
    IF i > Len(t) THEN [target |-> t, dict |-> d, unmerged |-> unm]
    ELSE IF HasSlug(d, t[i].slug)
         THEN MergeLoop([t EXCEPT ![i] = Merge(t[i], d[DictIndex(d, t[i].slug)])],
                        i + 1, DictPop(d, t[i].slug), unm)
         ELSE MergeLoop(t, i + 1, d, Append(unm, t[i]))

\* merge_columns popping the matched columns from other_columns itself
MergeColumnsPopsOther(t, o) ==
    IF t = <<>>
    THEN [columns |-> o, target |-> t, other |-> o, none |-> TRUE, unmerged |-> <<>>, unused |-> <<>>]
    ELSE IF o = <<>>
    THEN [columns |-> t, target |-> t, other |-> o, none |-> TRUE, unmerged |-> <<>>, unused |-> <<>>]
    ELSE LET r == MergeLoop(t, 1, DictOf(o), <<>>)
         IN [columns |-> r.target, target |-> r.target, other |-> r.dict, none |-> FALSE,
             unmerged |-> r.unmerged, unused |-> r.dict]

\* merge_columns(target_columns, other_columns): self.columns, the two lists
\* after the call, and the result (none: the result is (None, None))
MergeColumns(t, o) ==
    IF t = <<>>
    THEN [columns |-> o, target |-> t, other |-> o, none |-> TRUE, unmerged |-> <<>>, unused |-> <<>>]
    ELSE IF o = <<>>
    THEN [columns |-> t, target |-> t, other |-> o, none |-> TRUE, unmerged |-> <<>>, unused |-> <<>>]
    ELSE LET r == MergeLoop(t, 1, DictOf(o), <<>>)
         IN [columns |-> r.target, target |-> r.target, other |-> o, none |-> FALSE,
             unmerged |-> r.unmerged, unused |-> r.dict]

(***************************************************************************)
(* SpecColumns: columns are made by the parser and by introspection, and   *)
(* then reconciled.  The inputs are drawn from the sets below.             *)
(***************************************************************************)
SpecInput(name, opts) == [name |-> name, opts |-> opts]

\* column specs: a, A:notnull, b:default(0), a:int-pk-seq, b:decimal(10,2)-ix,
\* B:varchar(20)-filename
SpecInputs ==
    {SpecInput("a", <<>>),
     SpecInput("A", <<Flag("notnull")>>),
     SpecInput("b", <<Opt("default", "0", NoInt, NoInt)>>),
     SpecInput("a", <<Opt("type", "int", NoInt, NoInt), Flag("pk"), Flag("seq")>>),
     SpecInput("b", <<Opt("type_ps", "decimal", 10, 2), Flag("ix")>>),
     SpecInput("B", <<Opt("type_p", "varchar", 20, NoInt), Flag("filename")>>)}

\* catalog columns; PostgreSQL marks every column of a primary key NOT NULL,
\* so is_nullable = 'NO' on each column that is part of the primary-key index
CatalogColumns ==
    {CatCol("a", "integer", 32, 0, TRUE, "nextval('t_id_seq'::regclass)", {"primary"}),
     CatCol("A", "text", NoInt, NoInt, FALSE, None, {}),
     CatCol("b", "numeric", 10, 2, FALSE, None, {"single"}),
     CatCol("b", "character varying", 20, NoInt, TRUE, None, {"primary", "multi"}),
     CatCol("c", "timestamp without time zone", 6, NoInt, FALSE, "now()", {"single"})}

\* tables of the catalog: column names are unique in a table
CatalogTables(maxLen) ==
    {tab \in UNION {[1..n -> CatalogColumns] : n \in 1..maxLen} :
        \A i, j \in 1..Len(tab) : i # j => tab[i].name # tab[j].name}

NoMerge == [done |-> FALSE, self |-> FromSpec("a", <<>>, FALSE),
            other |-> FromSpec("a", <<>>, FALSE), result |-> FromSpec("a", <<>>, FALSE)]

NoResult == [none |-> TRUE, unmerged |-> <<>>, unused |-> <<>>]

NoFirst == [preTarget |-> <<>>, preOther |-> <<>>, target |-> <<>>, other |-> <<>>,
            result |-> NoResult]

InitColumns ==
    /\ target = <<>>
    /\ other = <<>>
    /\ selfColumns = <<>>
    /\ result = NoResult
    /\ applications = 0
    /\ first = NoFirst
    /\ lastMerge = NoMerge
    /\ JobIdle
    /\ LoadIdle
    /\ OtherIdle

Building == applications = 0 /\ ~lastMerge.done

\* Column.from_spec makes one more column of the target list
ParseTarget ==
    /\ Building
    /\ Len(target) < MaxTarget
    /\ \E inp \in SpecInputs :
          /\ ~FromSpecRaises(inp.opts)
          /\ target' = Append(target, FromSpec(inp.name, inp.opts, FALSE))
    /\ UNCHANGED <<other, selfColumns, result, applications, first, lastMerge, jobVars, loadVars, otherVars>>

\* Column.from_spec makes one more column of the other list
ParseOther ==
    /\ Building
    /\ Len(other) < MaxOther
    /\ \E inp \in SpecInputs :
          /\ ~FromSpecRaises(inp.opts)
          /\ other' = Append(other, FromSpec(inp.name, inp.opts, FALSE))
    /\ UNCHANGED <<target, selfColumns, result, applications, first, lastMerge, jobVars, loadVars, otherVars>>

\* get_table_columns makes the other list from a table of the catalog
IntrospectOther ==
    /\ Building
    /\ other = <<>>
    /\ \E tab \in CatalogTables(MaxOther) :
          /\ ~TableRaises(tab)
          /\ other' = GetTableColumns(tab, FALSE).cols
    /\ UNCHANGED <<target, selfColumns, result, applications, first, lastMerge, jobVars, loadVars, otherVars>>

\* column.merge(other_column), on the last column made for each list
ColumnMergeCall ==
    /\ Building
    /\ target # <<>>
    /\ other # <<>>
    /\ LET t == target[Len(target)]
           o == other[Len(other)]
       IN lastMerge' = [done |-> TRUE, self |-> t, other |-> o, result |-> Merge(t, o)]
    /\ UNCHANGED <<target, other, selfColumns, result, applications, first, jobVars, loadVars, otherVars>>

\* merge_columns(target, other), a first and a second time
MergeColumnsCall ==
    /\ ~lastMerge.done
    /\ applications < 2
    /\ LET r == MergeColumns(target, other)
           res == [none |-> r.none, unmerged |-> r.unmerged, unused |-> r.unused]
       IN /\ target' = r.target
          /\ other' = r.other
          /\ selfColumns' = r.columns
          /\ result' = res
          /\ first' = IF applications = 0
                      THEN [preTarget |-> target, preOther |-> other, target |-> r.target,
                            other |-> r.other, result |-> res]
                      ELSE first
    /\ applications' = applications + 1
    /\ UNCHANGED <<lastMerge, jobVars, loadVars, otherVars>>

NextColumns ==
    \/ ParseTarget
    \/ ParseOther
    \/ IntrospectOther
    \/ ColumnMergeCall
    \/ MergeColumnsCall

SpecColumns == InitColumns /\ [][NextColumns]_vars

(***************************************************************************)
(* Claims on column construction and reconciliation (SpecColumns).         *)
(***************************************************************************)
Range(seq) == {seq[i] : i \in 1..Len(seq)}

ColumnsOf(seq) == {seq[i] : i \in 1..Len(seq)}

NotnullRule(c) == (c.primarykey \/ c.default # None) => c.notnull

SlugIn(slug, seq) == \E i \in 1..Len(seq) : seq[i].slug = slug

\* C5: merge_columns on two non-empty lists partitions them by slug: unmerged
\* is exactly the target columns whose slug is no slug of other, unused is
\* exactly the columns of other whose slug is no slug of target, and every
\* column of other is merged into exactly one target column or is in unused.
C5_Partition ==
    (applications >= 1 /\ first.preTarget # <<>> /\ first.preOther # <<>>) =>
        /\ first.result.unmerged
             = SelectSeq(first.preTarget, LAMBDA c : ~SlugIn(c.slug, first.preOther))
        /\ first.result.unused
             = SelectSeq(first.preOther, LAMBDA c : ~SlugIn(c.slug, first.preTarget))
        /\ Len(first.preOther)
             = Len(first.result.unused)
               + (Len(first.preTarget) - Len(first.result.unmerged))

IsSetField(f, c) ==
    IF f \in {"datatype", "default"} THEN c[f] # None
    ELSE IF f \in {"precision", "scale"} THEN IsInt(c[f])
    ELSE c[f]

MergedFields == {"datatype", "precision", "scale", "notnull", "primarykey", "index", "default"}

\* C6: after target.merge(other), each of datatype, precision, scale, notnull,
\* primarykey, index and default of the target is other's value when other's
\* field is set, and is unchanged otherwise.
C6_MergeRule ==
    lastMerge.done =>
        \A f \in MergedFields :
            lastMerge.result[f] = IF IsSetField(f, lastMerge.other)
                                  THEN lastMerge.other[f]
                                  ELSE lastMerge.self[f]

\* C7: a second merge_columns(A, B) on the lists the first one left returns
\* the same unmerged and unused and leaves every column of A and B as the
\* first application left it.
C7_MergeDeterminism ==
    applications = 2 =>
        /\ result = first.result
        /\ target = first.target
        /\ other = first.other

\* two applications on lists where the first one changed a target column and
\* left both an unmerged and an unused column
C7_Witness ==
    /\ applications = 2
    /\ ~result.none
    /\ result.unmerged # <<>>
    /\ result.unused # <<>>
    /\ first.target # first.preTarget

(***************************************************************************)
(* One transfer job: csv_pg.from_csv / csv_pg.to_csv                       *)
(*     with CopyContext(...) as context: context.from_csv()                *)
(* and a zut DbAdapter used as a context manager.  A statement sent to the *)
(* backend either succeeds or raises the backend's error.                  *)
(***************************************************************************)
Err(kind, msg, names) == [kind |-> kind, msg |-> msg, names |-> names]
NoError == Err("None", "", <<>>)
BackendError == Err("psycopg.Error", "", <<>>)

NamesOf(columns) == [i \in 1..Len(columns) |-> columns[i].name]

\* ", ".join(columns): str.join raises TypeError on the first item that is
\* not a str, and every item of a list of Column objects is a Column
JoinRaises(columns) == columns # <<>>

\* raise ValueError(msg % ", ".join(columns)): the exception that comes out
RaiseValueErrorNaming(msg, columns) ==
    IF JoinRaises(columns)
    THEN Err("TypeError", "sequence item 0: expected str instance, Column found", <<>>)
    ELSE Err("ValueError", msg, <<>>)

MSG_NOT_IN_CSV == "column not found in csv file and without a default value"
MSG_NOT_IN_TABLE == "column not found in table"
MSG_NO_HEADER == "if csv file does not contain a header, columns must be given as an argument"
MSG_UNEXPECTED_COLUMN == "csv file already exists with unexpected column"

\* the columns a list of specs parses to
RECURSIVE ParseSpecs(_)
ParseSpecs(specs) ==
    IF specs = <<>> THEN <<>>
    ELSE <<FromSpec(Head(specs).name, Head(specs).opts, FALSE)>> \o ParseSpecs(Tail(specs))

\* an option at which split_options or the regex of from_spec raises
SyntaxError(text) == Opt("syntax", text, NoInt, NoInt)

\* whether from_spec raises on a spec: ValueError from the split of the
\* options, NotImplementedError from the constructor
SpecRaises(spec) ==
    \/ \E i \in 1..Len(spec.opts) : spec.opts[i].kind = "syntax"
    \/ FromSpecRaises(spec.opts)

SpecsRaise(specs) == \E i \in 1..Len(specs) : SpecRaises(specs[i])

MSG_SYNTAX == "syntax error: cannot close parenthis in"
MSG_DATA_TYPE == "data type"
MSG_DATEFORMAT == "invalid value for dateformat, must be one of: YMD, DMY, MDY"

\* the exception of from_spec on a spec that raises: the ValueError names
\* the text read so far, the NotImplementedError the data type and the column
SpecError(spec) ==
    IF \E i \in 1..Len(spec.opts) : spec.opts[i].kind = "syntax"
    THEN LET i == CHOOSE k \in 1..Len(spec.opts) :
                      /\ spec.opts[k].kind = "syntax"
                      /\ \A h \in 1..(k - 1) : spec.opts[h].kind # "syntax"
         IN Err("ValueError", MSG_SYNTAX, <<spec.opts[i].text>>)
    ELSE Err("NotImplementedError", MSG_DATA_TYPE,
             <<ApplyOptions(SpecLocals0, spec.opts).datatype, spec.name>>)

\* the exception of the list comprehension over the specs: the first that raises
SpecsError(specs) ==
    SpecError(specs[CHOOSE k \in 1..Len(specs) :
                        /\ SpecRaises(specs[k])
                        /\ \A h \in 1..(k - 1) : ~SpecRaises(specs[h])])

VALID_DATEFORMATS == {"YMD", "DMY", "MDY"}

\* prepare_columns_from_file, the loop over unused: the columns appended to
\* columns_default before the loop ends or raises
RECURSIVE DefaultOnlyPrefix(_)
DefaultOnlyPrefix(columns) ==
    IF columns = <<>> THEN <<>>
    ELSE IF ~Head(columns).notnull \/ Head(columns).default # None
         THEN <<Head(columns)>> \o DefaultOnlyPrefix(Tail(columns))
         ELSE <<>>

\* "__filename__" in default or "__filepath__" in default, on the defaults of
\* the model
HasPlaceholder(default) ==
    default \in {DEFAULT_FILENAME, DEFAULT_FILEPATH, "'__filename__'::text", "'__filepath__'::text"}

\* build_alter_default_queries: the loop raises TypeError at the first column
\* that reaches the "in column.default" test with default None
AlterDefaultRaises(columnsDefault) ==
    \E i \in 1..Len(columnsDefault) : columnsDefault[i].default = None

\* build_alter_default_queries: the columns it makes an update and a revert for
AlteredColumns(columnsDefault) ==
    SelectSeq(columnsDefault, LAMBDA c : c.default # DEFAULT_SEQ /\ HasPlaceholder(c.default))

\* the catalog column that create table makes of a Column
CreatedColumn(c) ==
    CatCol(c.slug, IF c.datatype = None THEN "text" ELSE c.datatype, c.precision, c.scale,
           c.notnull, IF c.default = DEFAULT_SEQ THEN "nextval('t_id_seq'::regclass)" ELSE c.default,
           (IF c.primarykey THEN {"primary"} ELSE {}) \cup (IF c.index THEN {"single"} ELSE {}))

CreatedTable(columns) == [i \in 1..Len(columns) |-> CreatedColumn(columns[i])]

(***************************************************************************)
(* The job's arguments and its environment.                                *)
(***************************************************************************)
\* headers of the csv file: a | a,b | a:money
HeaderInputs ==
    {<<SpecInput("a", <<>>)>>,
     <<SpecInput("a", <<>>), SpecInput("b", <<>>)>>,
     <<SpecInput("a", <<Opt("type", "money", NoInt, NoInt)>>)>>}

\* declared / requested columns: b:notnull, c, C:int-pk-seq, c:filename, a:int,
\* a:money, a:default(0))
DeclaredInputs ==
    {SpecInput("b", <<Flag("notnull")>>),
     SpecInput("c", <<>>),
     SpecInput("C", <<Opt("type", "int", NoInt, NoInt), Flag("pk"), Flag("seq")>>),
     SpecInput("c", <<Flag("filename")>>),
     SpecInput("a", <<Opt("type", "int", NoInt, NoInt)>>),
     SpecInput("a", <<Opt("type", "money", NoInt, NoInt)>>),
     SpecInput("a", <<SyntaxError("default(0))")>>)}

\* the dateformat argument: none, a valid one, an invalid one
DateFormats == {None, "DMY", "dmy"}

DeclaredLists == UNION {[1..n -> DeclaredInputs] : n \in 0..MaxDeclared}

\* the rows of information_schema.columns for the target table before the
\* job: none (the table is absent, or exists with no column), or one of two
\* tables
JobTables ==
    {<<>>,
     <<CatCol("a", "integer", 32, 0, TRUE, "nextval('t_id_seq'::regclass)", {"primary"}),
       CatCol("b", "numeric", 10, 2, FALSE, None, {"single"})>>,
     <<CatCol("a", "text", NoInt, NoInt, FALSE, None, {}),
       CatCol("c", "text", NoInt, NoInt, TRUE, "'__filename__'::text", {})>>}

TransferKinds == {"from_csv", "to_csv"}

TransferJobs ==
    [kind : TransferKinds, declared : DeclaredLists, noheader : BOOLEAN,
     truncate : BOOLEAN, recreate : BOOLEAN, dateformat : DateFormats]

AdapterJobs == [kind : {"adapter"}, mustClose : BOOLEAN, passwordMissing : BOOLEAN]

NoCtx == [columnsDefault |-> <<>>, columnsDefaultSet |-> FALSE, columnsNone |-> FALSE,
          noheader |-> FALSE, copyColumns |-> <<>>, uses |-> 0, reconciled |-> FALSE,
          fileRead |-> FALSE, copyHeader |-> FALSE, written |-> "nothing"]

Init ==
    /\ job \in TransferJobs \cup AdapterJobs
    /\ pc = "new"
    /\ ctx = NoCtx
    /\ conn = [opened |-> 0, closed |-> 0, cursor |-> "none", present |-> FALSE]
    /\ db \in [table : JobTables, exists : BOOLEAN, schema : BOOLEAN, altered : {{}}]
    /\ (db.table # <<>> => db.exists)
    /\ (db.exists => db.schema)
    /\ file \in [exists : BOOLEAN, header : HeaderInputs]
    /\ (job.kind = "adapter" => db.table = <<>> /\ ~db.exists /\ ~file.exists /\ Len(file.header) = 1)
    /\ statements = <<>>
    /\ error = NoError
    /\ target = <<>>
    /\ other = <<>>
    /\ selfColumns = <<>>
    /\ result = NoResult
    /\ MergeTraceIdle
    /\ LoadIdle
    /\ OtherIdle

IsTransfer == job.kind \in TransferKinds

\* the phase a position of from_csv belongs to: 1 dialect resolution,
\* 2 schema reconciliation, 3 target preparation, 4 bulk copy, 5 over
Phase(at) ==
    IF at \in {"new", "constructed", "open_file"} THEN 0
    ELSE IF at = "params" THEN 1
    ELSE IF at = "columns" THEN 2
    ELSE IF at \in {"table_get", "table_create", "table_drop", "table_recreate",
                    "table_truncate"} THEN 3
    ELSE IF at \in {"copy_build", "copy_updates", "copy", "copy_reverts"} THEN 4
    ELSE 5

\* an exception that is recorded while the job goes on with its next call
RaiseAndGoOn(e) ==
    /\ error' = e
    /\ pc' = IF pc = "params" THEN "columns" ELSE IF pc = "columns" THEN "table_get"
             ELSE IF Phase(pc) = 3 THEN "copy_build" ELSE "exit"

\* an exception leaves the with block: __exit__ runs next
Raise(e) == error' = e /\ pc' = "exit"

\* BaseContext.__init__: self.columns, then self.datestyle
Construct ==
    /\ pc = "new"
    /\ IsTransfer
    /\ IF SpecsRaise(job.declared)
       THEN /\ error' = SpecsError(job.declared)
            /\ pc' = "done"
            /\ UNCHANGED <<selfColumns, ctx>>
       ELSE IF job.dateformat # None /\ job.dateformat \notin VALID_DATEFORMATS
       THEN /\ error' = Err("ValueError", MSG_DATEFORMAT, <<job.dateformat>>)
            /\ pc' = "done"
            /\ UNCHANGED <<selfColumns, ctx>>
       ELSE /\ selfColumns' = ParseSpecs(job.declared)
            /\ ctx' = [ctx EXCEPT !.noheader = job.noheader]
            /\ pc' = "constructed"
            /\ UNCHANGED error
    /\ UNCHANGED <<job, conn, db, file, statements, target, other, result, mergeTrace, loadVars, otherVars>>

\* BaseContext.__enter__: connect, cursor, set datestyle.  An exception
\* leaves __enter__, so the with statement never calls __exit__
Enter ==
    /\ pc = "constructed"
    /\ IsTransfer
    /\ \E outcome \in {"connect fails", "set datestyle fails", "entered"} :
          \/ /\ outcome = "connect fails"
             /\ error' = BackendError
             /\ pc' = "done"
             /\ UNCHANGED <<conn, statements>>
          \/ /\ outcome = "set datestyle fails"
             /\ job.dateformat # None
             /\ conn' = [conn EXCEPT !.opened = @ + 1, !.cursor = "open", !.present = TRUE]
             /\ error' = BackendError
             /\ pc' = "done"
             /\ statements' = <<"SET datestyle">>
          \/ /\ outcome = "entered"
             /\ conn' = [conn EXCEPT !.opened = @ + 1, !.cursor = "open", !.present = TRUE]
             /\ statements' = IF job.dateformat # None THEN <<"SET datestyle">> ELSE <<>>
             /\ pc' = IF job.kind = "from_csv" THEN "open_file" ELSE "params"
             /\ UNCHANGED error
    /\ UNCHANGED <<job, ctx, db, file, target, other, selfColumns, result, mergeTrace, loadVars, otherVars>>

\* BaseContext.__exit__: cursor.close(), connection.close()
Exit ==
    /\ pc = "exit"
    /\ IsTransfer
    /\ conn' = [conn EXCEPT !.cursor = "closed", !.closed = @ + 1]
    /\ pc' = "done"
    /\ UNCHANGED <<job, ctx, db, file, statements, error, target, other, selfColumns,
                   result, mergeTrace, loadVars, otherVars>>

\* from_csv: open(self.file, "r", ...)
OpenFile ==
    /\ pc = "open_file"
    /\ IF file.exists
       THEN pc' = "params" /\ UNCHANGED error
       ELSE Raise(Err("FileNotFoundError", "", <<>>))
    /\ UNCHANGED <<job, ctx, conn, db, file, statements, target, other, selfColumns,
                   result, mergeTrace, loadVars, otherVars>>

\* prepare_csv_params: when no dialect, delimiter, quote or escape is given,
\* the dialect is sniffed from the file (from_csv) or taken from the locale
\* (to_csv), which the file's content or the environment can make raise
PrepareCsvParams ==
    /\ pc = "params"
    /\ \E raises \in BOOLEAN :
          IF raises
          THEN Raise(IF job.kind = "from_csv"
                     THEN Err("csv.Error", "Could not determine delimiter", <<>>)
                     ELSE Err("TypeError", "expected string or bytes-like object", <<>>))
          ELSE pc' = "columns" /\ UNCHANGED error
    /\ ctx' = IF job.kind = "from_csv" THEN [ctx EXCEPT !.fileRead = TRUE] ELSE ctx
    /\ UNCHANGED <<job, conn, db, file, statements, target, other, selfColumns,
                   result, mergeTrace, loadVars, otherVars>>

\* FromCsvMixin.prepare_columns_from_file
PrepareColumnsFromFile ==
    /\ pc = "columns"
    /\ job.kind = "from_csv"
    /\ IF selfColumns = <<>> /\ ctx.noheader
       THEN /\ Raise(Err("ValueError", MSG_NO_HEADER, <<>>))
            /\ UNCHANGED <<ctx, target, other, selfColumns, result>>
       ELSE IF ctx.noheader
       THEN /\ pc' = "table_get"
            /\ UNCHANGED <<error, ctx, target, other, selfColumns, result>>
       ELSE IF SpecsRaise(file.header)
       THEN /\ Raise(SpecsError(file.header))
            /\ ctx' = [ctx EXCEPT !.fileRead = TRUE]
            /\ UNCHANGED <<target, other, selfColumns, result>>
       ELSE LET r == MergeColumns(ParseSpecs(file.header), selfColumns)
                defaults == DefaultOnlyPrefix(r.unused)
            IN /\ target' = r.target
               /\ other' = r.other
               /\ selfColumns' = r.columns
               /\ result' = [none |-> r.none, unmerged |-> r.unmerged, unused |-> r.unused]
               /\ ctx' = [ctx EXCEPT !.columnsDefault = defaults, !.columnsDefaultSet = TRUE,
                                      !.reconciled = TRUE, !.fileRead = TRUE]
               /\ IF defaults = r.unused
                  THEN pc' = "table_get" /\ UNCHANGED error
                  ELSE Raise(RaiseValueErrorNaming(MSG_NOT_IN_CSV, r.unused))
    /\ UNCHANGED <<job, conn, db, file, statements, mergeTrace, loadVars, otherVars>>

\* prepare_table after get_table_columns / create_table / drop_table: what
\* it does next
AfterGet(absent) ==
    IF absent THEN "table_create"
    ELSE IF job.recreate THEN "table_drop"
    ELSE IF job.truncate THEN "table_truncate"
    ELSE "copy_build"

AfterCreate(at) ==
    IF at = "table_create" /\ job.recreate THEN "table_drop"
    ELSE IF job.truncate THEN "table_truncate"
    ELSE "copy_build"

\* the queries of get_table_columns: the second runs only if the first
\* returned rows
TableQueries(tab) ==
    IF tab = <<>> THEN <<"SELECT columns">> ELSE <<"SELECT columns", "SELECT indexes">>

\* prepare_table: table_columns = self.get_table_columns()
PrepareTableGet ==
    /\ pc = "table_get"
    /\ \E fails \in BOOLEAN :
          IF fails
          THEN /\ Raise(BackendError)
               /\ statements' = Append(statements, "SELECT columns")
          ELSE /\ statements' = statements \o TableQueries(db.table)
               /\ IF TableRaises(db.table)
                  THEN Raise(Err("NotImplementedError", "data type", <<>>))
                  ELSE pc' = AfterGet(GetTableColumns(db.table, FALSE).absent) /\ UNCHANGED error
    /\ UNCHANGED <<job, ctx, conn, db, file, target, other, selfColumns, result, mergeTrace, loadVars, otherVars>>

\* create_table: schema lookup, create schema if absent, build_create_table_query
\* (which reads self.columns_default), create table
CreateTable ==
    /\ pc \in {"table_create", "table_recreate"}
    /\ \E outcome \in {"schema lookup fails", "create schema fails", "create table fails", "created"} :
          LET lookup == statements \o <<"SELECT schema">>
              schema == IF db.schema THEN lookup ELSE lookup \o <<"CREATE SCHEMA">>
          IN \/ /\ outcome = "schema lookup fails"
                /\ Raise(BackendError)
                /\ statements' = lookup
                /\ UNCHANGED db
             \/ /\ outcome = "create schema fails"
                /\ ~db.schema
                /\ Raise(BackendError)
                /\ statements' = schema
                /\ UNCHANGED db
             \/ /\ outcome = "create table fails"
                /\ ctx.columnsDefaultSet
                /\ Raise(BackendError)
                /\ statements' = schema \o <<"CREATE TABLE">>
                /\ db' = [db EXCEPT !.schema = TRUE]
             \/ /\ outcome = "created"
                /\ statements' = IF ctx.columnsDefaultSet THEN schema \o <<"CREATE TABLE">> ELSE schema
                /\ IF ~ctx.columnsDefaultSet
                   THEN /\ Raise(Err("AttributeError", "columns_default", <<>>))
                        /\ db' = [db EXCEPT !.schema = TRUE]
                   ELSE IF db.exists
                   THEN /\ Raise(BackendError)
                        /\ db' = [db EXCEPT !.schema = TRUE]
                   ELSE /\ db' = [db EXCEPT !.schema = TRUE, !.exists = TRUE,
                                            !.table = CreatedTable(ctx.columnsDefault \o selfColumns)]
                        /\ pc' = AfterCreate(pc)
                        /\ UNCHANGED error
    /\ UNCHANGED <<job, ctx, conn, file, target, other, selfColumns, result, mergeTrace, loadVars, otherVars>>

\* drop_table
DropTable ==
    /\ pc = "table_drop"
    /\ \E fails \in BOOLEAN :
          IF fails \/ ~db.exists
          THEN /\ Raise(BackendError)
               /\ statements' = Append(statements, "DROP TABLE")
               /\ UNCHANGED db
          ELSE /\ statements' = Append(statements, "DROP TABLE")
               /\ db' = [db EXCEPT !.table = <<>>, !.exists = FALSE]
               /\ pc' = "table_recreate"
               /\ UNCHANGED error
    /\ UNCHANGED <<job, ctx, conn, file, target, other, selfColumns, result, mergeTrace, loadVars, otherVars>>

\* truncate_table
TruncateTable ==
    /\ pc = "table_truncate"
    /\ \E fails \in BOOLEAN :
          IF fails \/ ~db.exists
          THEN /\ Raise(BackendError)
               /\ statements' = Append(statements, "TRUNCATE")
          ELSE /\ statements' = Append(statements, "TRUNCATE")
               /\ pc' = "copy_build"
               /\ UNCHANGED error
    /\ UNCHANGED <<job, ctx, conn, db, file, target, other, selfColumns, result, mergeTrace, loadVars, otherVars>>

TableNames(tab) == {tab[i].name : i \in 1..Len(tab)}

SlugsOf(columns) == [i \in 1..Len(columns) |-> columns[i].slug]

\* how many of the statements made for these columns the backend accepts
\* before it refuses one: a statement on a column the table lacks is refused
RECURSIVE Accepted(_, _)
Accepted(columns, tab) ==
    IF columns = <<>> \/ Head(columns).slug \notin TableNames(tab) THEN 0
    ELSE 1 + Accepted(Tail(columns), tab)

Repeat(x, n) == [i \in 1..n |-> x]

\* copy_from, before its try block: build_copy_from_query and
\* build_alter_default_queries
CopyBuild ==
    /\ pc = "copy_build"
    /\ IF ~ctx.columnsDefaultSet
       THEN Raise(Err("AttributeError", "columns_default", <<>>)) /\ UNCHANGED ctx
       ELSE IF AlterDefaultRaises(ctx.columnsDefault)
       THEN /\ Raise(Err("TypeError", "argument of type 'NoneType' is not iterable", <<>>))
            /\ UNCHANGED ctx
       ELSE /\ ctx' = [ctx EXCEPT !.copyColumns = SlugsOf(selfColumns)]
            /\ pc' = "copy_updates"
            /\ UNCHANGED error
    /\ UNCHANGED <<job, conn, db, file, statements, target, other, selfColumns, result,
                   mergeTrace, loadVars, otherVars>>

\* copy_from, the loop over updates: k of them are executed, the next one (if
\* any is left) raises
CopyUpdates ==
    /\ pc = "copy_updates"
    /\ LET altered == AlteredColumns(ctx.columnsDefault)
       IN \E k \in 0..Accepted(altered, db.table) :
             /\ db' = [db EXCEPT !.altered = {altered[i].slug : i \in 1..k}]
             /\ IF k = Len(altered)
                THEN /\ statements' = statements \o Repeat("ALTER DEFAULT", k)
                     /\ pc' = "copy"
                     /\ UNCHANGED error
                ELSE /\ statements' = statements \o Repeat("ALTER DEFAULT", k + 1)
                     /\ error' = BackendError
                     /\ pc' = "copy_reverts"
    /\ UNCHANGED <<job, ctx, conn, file, target, other, selfColumns, result, mergeTrace, loadVars, otherVars>>

\* copy_from: with self.cursor.copy(query) ... copy.write(data)
Copy ==
    /\ pc = "copy"
    /\ statements' = Append(statements, "COPY FROM")
    /\ \E fails \in BOOLEAN :
          IF fails \/ \E i \in 1..Len(ctx.copyColumns) : ctx.copyColumns[i] \notin TableNames(db.table)
          THEN error' = BackendError
          ELSE UNCHANGED error
    /\ pc' = "copy_reverts"
    /\ UNCHANGED <<job, ctx, conn, db, file, target, other, selfColumns, result, mergeTrace, loadVars, otherVars>>

\* copy_from, the finally block: the loop over reverts
CopyReverts ==
    /\ pc = "copy_reverts"
    /\ LET altered == AlteredColumns(ctx.columnsDefault)
       IN \E k \in 0..Accepted(altered, db.table) :
             /\ db' = [db EXCEPT !.altered = @ \ {altered[i].slug : i \in 1..k}]
             /\ IF k = Len(altered)
                THEN /\ statements' = statements \o Repeat("ALTER REVERT", k)
                     /\ UNCHANGED error
                ELSE /\ statements' = statements \o Repeat("ALTER REVERT", k + 1)
                     /\ error' = BackendError
    /\ pc' = "exit"
    /\ UNCHANGED <<job, ctx, conn, file, target, other, selfColumns, result, mergeTrace, loadVars, otherVars>>

MSG_WRITE_STR == "write() argument must be str, not bytes"

\* ToCsvMixin.prepare_columns_from_table
PrepareColumnsFromTable ==
    /\ pc = "columns"
    /\ job.kind = "to_csv"
    /\ \E fails \in BOOLEAN :
          IF fails
          THEN /\ Raise(BackendError)
               /\ statements' = Append(statements, "SELECT columns")
               /\ UNCHANGED <<ctx, target, other, selfColumns, result>>
          ELSE /\ statements' = statements \o TableQueries(db.table)
               /\ IF TableRaises(db.table)
                  THEN /\ Raise(Err("NotImplementedError", "data type", <<>>))
                       /\ UNCHANGED <<ctx, target, other, selfColumns, result>>
                  ELSE LET tc == GetTableColumns(db.table, FALSE)
                           r == MergeColumns(selfColumns, tc.cols)
                       IN /\ target' = r.target
                          /\ other' = r.other
                          /\ selfColumns' = r.columns
                          /\ result' = [none |-> r.none, unmerged |-> r.unmerged,
                                        unused |-> r.unused]
                          /\ ctx' = [ctx EXCEPT !.columnsNone = (selfColumns = <<>> /\ tc.absent),
                                                 !.reconciled = TRUE]
                          /\ IF r.unmerged # <<>>
                             THEN Raise(RaiseValueErrorNaming(MSG_NOT_IN_TABLE, r.unmerged))
                             ELSE pc' = "file" /\ UNCHANGED error
    /\ UNCHANGED <<job, conn, db, file, mergeTrace, loadVars, otherVars>>

\* prepare_file, the loop over the file's columns: the columns found, and
\* the first file column that is not among the current columns
RECURSIVE Reorder(_, _, _)
Reorder(fileColumns, d, found) ==
    IF fileColumns = <<>> THEN [ok |-> TRUE, columns |-> found, unexpected |-> <<>>]
    ELSE IF HasSlug(d, Head(fileColumns).slug)
         THEN Reorder(Tail(fileColumns), DictPop(d, Head(fileColumns).slug),
                      Append(found, d[DictIndex(d, Head(fileColumns).slug)]))
         ELSE [ok |-> FALSE, columns |-> found, unexpected |-> <<Head(fileColumns).name>>]

\* ToCsvMixin.prepare_file
PrepareFile ==
    /\ pc = "file"
    /\ IF ~file.exists \/ job.truncate \/ job.recreate \/ ctx.noheader
       THEN /\ pc' = "copy_to"
            /\ UNCHANGED <<error, ctx, selfColumns>>
       ELSE /\ ctx' = [ctx EXCEPT !.noheader = TRUE, !.fileRead = TRUE]
            /\ IF SpecsRaise(file.header)
               THEN Raise(SpecsError(file.header)) /\ UNCHANGED selfColumns
               ELSE IF ctx.columnsNone
               THEN /\ Raise(Err("TypeError", "'NoneType' object is not iterable", <<>>))
                    /\ UNCHANGED selfColumns
               ELSE LET r == Reorder(ParseSpecs(file.header), DictOf(selfColumns), <<>>)
                    IN IF r.ok
                       THEN /\ selfColumns' = r.columns
                            /\ pc' = "copy_to"
                            /\ UNCHANGED error
                       ELSE /\ Raise(Err("ValueError", MSG_UNEXPECTED_COLUMN, r.unexpected))
                            /\ UNCHANGED selfColumns
    /\ UNCHANGED <<job, conn, db, file, statements, target, other, result, mergeTrace, loadVars, otherVars>>

\* ToCsvMixin.copy_to: build_copy_to_query, open the file ("wb" empties it,
\* "a" is a text mode), copy: the blocks of the copy are bytes, and the first
\* one written to a file opened in text mode raises TypeError
CopyTo ==
    /\ pc = "copy_to"
    /\ IF ctx.columnsNone
       THEN /\ Raise(Err("TypeError", "'NoneType' object is not iterable", <<>>))
            /\ UNCHANGED <<ctx, file, statements>>
       ELSE LET binary == job.truncate \/ job.recreate
                header == ~ctx.noheader
            IN /\ file' = [file EXCEPT !.exists = TRUE]
               /\ statements' = Append(statements, "COPY TO")
               /\ \E fails \in BOOLEAN, rows \in BOOLEAN :
                     LET opened == [ctx EXCEPT !.copyColumns = NamesOf(selfColumns),
                                               !.copyHeader = header,
                                               !.written = IF binary THEN "emptied" ELSE "nothing"]
                     IN IF fails \/ selfColumns = <<>>
                           \/ \E i \in 1..Len(selfColumns) : selfColumns[i].name \notin TableNames(db.table)
                        THEN Raise(BackendError) /\ ctx' = opened
                        ELSE IF ~(header \/ rows)
                        THEN pc' = "exit" /\ UNCHANGED error /\ ctx' = opened
                        ELSE IF ~binary
                        THEN /\ Raise(Err("TypeError", MSG_WRITE_STR, <<>>))
                             /\ ctx' = opened
                        ELSE /\ pc' = "exit"
                             /\ UNCHANGED error
                             /\ ctx' = [opened EXCEPT !.written = "replaced"]
    /\ UNCHANGED <<job, conn, db, target, other, selfColumns, result, mergeTrace, loadVars, otherVars>>

(***************************************************************************)
(* zut DbAdapter as a context manager: with adapter: ...                   *)
(***************************************************************************)
transferState == <<db, file, statements, target, other, selfColumns, result, mergeTrace, loadVars, otherVars>>

\* DbAdapter.__init__ and __enter__: an origin that is a connection is kept
\* and not closed by the adapter; a URL is connected to on first use
AdapterEnter ==
    /\ pc = "new"
    /\ job.kind = "adapter"
    /\ conn' = [conn EXCEPT !.present = ~job.mustClose]
    /\ pc' = "body"
    /\ UNCHANGED <<job, ctx, error, transferState>>

\* the connection property (cursor(), execute_query(), ...)
AdapterUse ==
    /\ pc = "body"
    /\ ctx.uses < MaxUses
    /\ ctx' = [ctx EXCEPT !.uses = @ + 1]
    /\ IF conn.present
       THEN UNCHANGED <<conn, error, pc>>
       ELSE IF job.passwordMissing
       THEN Raise(Err("ValueError", "password not provided", <<>>)) /\ UNCHANGED conn
       ELSE \E connects \in BOOLEAN :
               IF connects
               THEN /\ conn' = [conn EXCEPT !.present = TRUE, !.opened = @ + 1]
                    /\ UNCHANGED <<error, pc>>
               ELSE Raise(BackendError) /\ UNCHANGED conn
    /\ UNCHANGED <<job, transferState>>

\* the with block ends, by its last statement or by an exception of the body
AdapterLeave ==
    /\ pc = "body"
    /\ \E raises \in BOOLEAN :
          IF raises THEN Raise(BackendError) ELSE pc' = "exit" /\ UNCHANGED error
    /\ UNCHANGED <<job, ctx, conn, transferState>>

\* DbAdapter.__exit__: close()
AdapterExit ==
    /\ pc = "exit"
    /\ job.kind = "adapter"
    /\ conn' = IF conn.present /\ job.mustClose THEN [conn EXCEPT !.closed = @ + 1] ELSE conn
    /\ pc' = "done"
    /\ UNCHANGED <<job, ctx, error, transferState>>

Next ==
    \/ Construct
    \/ Enter
    \/ OpenFile
    \/ PrepareCsvParams
    \/ PrepareColumnsFromFile
    \/ PrepareTableGet
    \/ CreateTable
    \/ DropTable
    \/ TruncateTable
    \/ CopyBuild
    \/ CopyUpdates
    \/ Copy
    \/ CopyReverts
    \/ PrepareColumnsFromTable
    \/ PrepareFile
    \/ CopyTo
    \/ Exit
    \/ AdapterEnter
    \/ AdapterUse
    \/ AdapterLeave
    \/ AdapterExit

Spec == Init /\ [][Next]_vars

\* a column carries a scale only on a decimal, a precision only on a
\* decimal, varchar, char, timestamp or timestamptz
SizedByType(c) ==
    /\ IsInt(c.scale) => c.datatype = "decimal"
    /\ IsInt(c.precision) => c.datatype \in {"decimal", "varchar", "char", "timestamp", "timestamptz"}

\* C25: every column made by from_spec or get_table_columns, and every
\* column after merge or merge_columns, carries a scale only on a decimal
\* and a precision only on a type that takes one
C25_SizeOnlyOnSizedTypes ==
    /\ \A c \in ColumnsOf(target) \cup ColumnsOf(other) \cup ColumnsOf(selfColumns) : SizedByType(c)
    /\ lastMerge.done => SizedByType(lastMerge.result)

(***************************************************************************)
(* Claims on a transfer job (Spec).                                        *)
(***************************************************************************)
\* C2: every backend connection a job opened is closed exactly once by the
\* time the job returns or raises, on every exit path; it is never closed
\* twice and never left open.
C2_ClosedExactlyOnce ==
    /\ conn.closed <= conn.opened
    /\ pc = "done" => conn.closed = conn.opened

\* C8: in from_csv on a file with a header, a declared column that matches no
\* header column, is not-null and has no default makes the job fail with the
\* ValueError "column not found in csv file and without a default value"
\* naming the column.
C8_MissingColumnError ==
    (job.kind = "from_csv" /\ ctx.reconciled) =>
        \A c \in ColumnsOf(other) :
            (~SlugIn(c.slug, target) /\ c.notnull /\ c.default = None) =>
                /\ error.kind = "ValueError"
                /\ error.msg = MSG_NOT_IN_CSV
                /\ c.name \in Range(error.names)

\* C9: in from_csv on a file with a header, the unused columns that are
\* nullable or have a default (of any kind) become the default-only columns:
\* they are left out of the COPY column list and the job does not raise
\* because of them on its way through target preparation and the copy.
C9_DefaultOnlyColumns ==
    (job.kind = "from_csv" /\ ctx.reconciled
        /\ \A c \in ColumnsOf(result.unused) : ~c.notnull \/ c.default # None) =>
            /\ ctx.columnsDefault = result.unused
            /\ \A c \in ColumnsOf(result.unused) : c.slug \notin Range(ctx.copyColumns)
            /\ ~(error.kind = "TypeError" /\ result.unused # <<>>)

\* C10: in to_csv, whatever the state of the target table, a requested column
\* with no column of the same slug in the table makes the job fail, before
\* the COPY is issued, with the ValueError "column not found in table" naming
\* the column.
C10_RequestedColumnError ==
    (job.kind = "to_csv" /\ ctx.reconciled) =>
        \A c \in ColumnsOf(ParseSpecs(job.declared)) :
            ~SlugIn(c.slug, GetTableColumns(db.table, FALSE).cols) =>
                /\ error.kind = "ValueError"
                /\ error.msg = MSG_NOT_IN_TABLE
                /\ c.name \in Range(error.names)
                /\ "COPY TO" \notin Range(statements)

(***************************************************************************)
(* zut.db.pg: BasePgAdapter.load_from_csv, called up to MaxLoads times on  *)
(* one adapter with the same arguments (SpecLoad).                         *)
(*                                                                         *)
(* The backend is PostgreSQL.  A statement sent on a live session either   *)
(* takes effect, fails, or finds the connection lost.  A temporary table   *)
(* belongs to its session and goes with it.  Without autocommit the        *)
(* adapter never commits: a failed statement aborts the transaction, whose *)
(* effects are discarded and in which every later statement fails.         *)
(***************************************************************************)
MaxId == 2
MaxLoads == 2

NULL == NoInt
Ids == 1..MaxId
Vals == {0, 1}

\* one row of target_colinfos
ColInfo(name, is_primary_key, is_nullable) ==
    [name |-> name, is_primary_key |-> is_primary_key, is_nullable |-> is_nullable]

\* the target tables: absent, keyed by id with the key first, with the key
\* last, with nothing but the key, and with a third column
TargetTables ==
    { <<>>,
      <<ColInfo("id", TRUE, FALSE), ColInfo("val", FALSE, TRUE)>>,
      <<ColInfo("val", FALSE, TRUE), ColInfo("id", TRUE, FALSE)>>,
      <<ColInfo("id", TRUE, FALSE)>>,
      <<ColInfo("id", TRUE, FALSE), ColInfo("val", FALSE, TRUE),
        ColInfo("note", FALSE, TRUE)>> }

InfoNames(colinfos) == [i \in 1..Len(colinfos) |-> colinfos[i].name]

ValuesOf(name) == IF name = "id" THEN Ids ELSE IF name = "val" THEN Vals ELSE {0}

UniqueIds(rows) == \A r \in rows : \A q \in rows : r.id = q.id => r = q

\* the contents a table or a file with these columns can have: ids are unique
RowsOver(names) ==
    IF names = <<>> THEN {{}}
    ELSE LET all == {r \in [Range(names) -> Ids \cup Vals] :
                        \A n \in Range(names) : r[n] \in ValuesOf(n)}
         IN {rows \in SUBSET all : UniqueIds(rows)}

\* the CSV files: a header row, data rows with unique ids
HeaderRows == {<<"id", "val">>, <<"id">>}
Files == UNION {[header : {h}, rows : RowsOver(h)] : h \in HeaderRows}

\* the columns argument; None and [] are the same to the code (<<>>)
ColumnLists == {<<>>, <<"id", "val">>, <<"id">>, <<"val">>}

LoadInputs ==
    [merge : {"upsert", "truncate", "none"}, columns : ColumnLists,
     autocommit : BOOLEAN, schema : TargetTables, file : Files]

NoStaging == [exists |-> FALSE, names |-> <<>>, rows |-> {}]

NoCall == [pc |-> "call", n |-> 0, tmp_tab |-> FALSE, key_columns |-> <<>>,
           nonkey_target_columns |-> <<>>, pieces |-> <<>>, issued |-> <<>>,
           error |-> NoError, faulted |-> FALSE]

InitLoad ==
    /\ load \in LoadInputs
    /\ call = NoCall
    /\ pgdb \in {[rows |-> rows, staging |-> NoStaging, session |-> "live",
                  before |-> rows, afterFirst |-> rows] :
                    rows \in RowsOver(InfoNames(load.schema))}
    /\ target = <<>>
    /\ other = <<>>
    /\ selfColumns = <<>>
    /\ result = NoResult
    /\ MergeTraceIdle
    /\ JobIdle
    /\ OtherIdle

\* ---- the backend

\* what can happen to a statement sent now; a malformed or unsatisfiable
\* statement can only fail
Outcomes(d, refused) ==
    IF d.session = "lost" THEN {"lost"}
    ELSE IF d.session = "aborted" THEN {"aborted"}
    ELSE IF refused THEN {"error", "lost"}
    ELSE {"ok", "error", "lost"}

\* the backend after a statement that did not take effect
Failed(d, outcome) ==
    IF outcome = "lost"
    THEN [d EXCEPT !.session = "lost", !.staging = NoStaging,
                   !.rows = IF load.autocommit THEN @ ELSE d.before]
    ELSE IF outcome = "aborted" \/ load.autocommit THEN d
    ELSE [d EXCEPT !.session = "aborted", !.staging = NoStaging, !.rows = d.before]

\* the exception psycopg raises for the outcome
Raised(outcome, refusal) ==
    IF outcome = "lost" THEN Err("OperationalError", "", <<>>)
    ELSE IF outcome = "aborted" THEN Err("InFailedSqlTransaction", "", <<>>)
    ELSE IF refusal # "None" THEN Err(refusal, "", <<>>)
    ELSE Err("OperationalError", "", <<>>)

\* a failure that the arguments and the table do not determine
IsFault(outcome, refusal) == outcome = "lost" \/ (outcome = "error" /\ refusal = "None")

\* ---- the CREATE TEMPORARY TABLE statement (pure part)

NoBuild == [raises |-> FALSE, pieces |-> <<>>, key_columns |-> <<>>,
            nonkey_target_columns |-> <<>>]

\* the loop over target_colinfos; i is enumerate's index plus one
RECURSIVE BuildLoop(_, _, _, _)
BuildLoop(colinfos, columns, i, acc) ==
    IF i > Len(colinfos) \/ acc.raises THEN acc
    ELSE LET colinfo == colinfos[i]
             name == colinfo.name
         IN IF columns # <<>> /\ name \notin Range(columns)
            THEN IF colinfo.is_primary_key
                 THEN [acc EXCEPT !.raises = TRUE]
                 ELSE BuildLoop(colinfos, columns, i + 1, acc)
            ELSE BuildLoop(colinfos, columns, i + 1,
                    [acc EXCEPT
                        !.pieces = Append(@, [name |-> name, comma |-> i > 1]),
                        !.key_columns = IF colinfo.is_primary_key THEN Append(@, name) ELSE @,
                        !.nonkey_target_columns =
                            IF colinfo.is_primary_key THEN @ ELSE Append(@, name)])

\* the additional columns: those of the columns argument the table lacks
RECURSIVE ExtraPieces(_, _, _)
ExtraPieces(columns, i, pieces) ==
    IF i > Len(columns) THEN pieces
    ELSE ExtraPieces(columns, i + 1,
            IF columns[i] \in {pieces[j].name : j \in 1..Len(pieces)}
            THEN pieces
            ELSE Append(pieces, [name |-> columns[i], comma |-> TRUE]))

BuildTemp(colinfos, columns) ==
    LET acc == BuildLoop(colinfos, columns, 1, NoBuild)
    IN IF acc.raises THEN acc
       ELSE [acc EXCEPT !.pieces = ExtraPieces(columns, 1, @)]

\* "(" directly followed by "," is a syntax error
CreateMalformed(pieces) == pieces # <<>> /\ pieces[1].comma

MSG_PRIMARY_KEY == "Primary key column must be included in the list of copied columns"

\* ---- COPY ... FROM STDIN (FORMAT csv, HEADER match)

CopyList(columns, names) == IF columns # <<>> THEN columns ELSE names

\* why the backend refuses the copy, or "None"
CopyRefusal(colinfos, names, rows, list, csv) ==
    IF ~(Range(list) \subseteq Range(names)) THEN "ProgrammingError"
    ELSE IF csv.header # list THEN "DataError"
    ELSE IF csv.rows # {} /\ \E i \in 1..Len(colinfos) :
                ~colinfos[i].is_nullable /\ colinfos[i].name \notin Range(list)
         THEN "IntegrityError"
    ELSE IF \E i \in 1..Len(colinfos) : colinfos[i].is_primary_key
            /\ \E r \in rows : \E f \in csv.rows : f.id = r.id
         THEN "IntegrityError"
    ELSE "None"

\* the rows a copy adds
Copied(names, list, csv) ==
    {[n \in Range(names) |-> IF n \in Range(list) THEN f[n] ELSE NULL] : f \in csv.rows}

\* the staging table's columns, as the CREATE statement declares them
StagingInfos(colinfos, pieces) ==
    [j \in 1..Len(pieces) |->
        IF \E i \in 1..Len(colinfos) : colinfos[i].name = pieces[j].name
        THEN colinfos[CHOOSE i \in 1..Len(colinfos) : colinfos[i].name = pieces[j].name]
        ELSE ColInfo(pieces[j].name, FALSE, TRUE)]

\* ---- INSERT ... SELECT ... ON CONFLICT (keys) DO UPDATE SET c=EXCLUDED.c

SameKey(row, excluded, keys) == \A k \in Range(keys) : row[k] = excluded[k]

\* DO UPDATE SET c=EXCLUDED.c with an update that adds to the old value
ExcludedAccumulates(row, excluded, nonkeys) ==
    [n \in DOMAIN row |-> IF n \in Range(nonkeys) THEN (row[n] + excluded[n]) % 2 ELSE row[n]]

\* DO UPDATE SET c=EXCLUDED.c for every non-key column
Excluded(row, excluded, nonkeys) ==
    [n \in DOMAIN row |-> IF n \in Range(nonkeys) THEN excluded[n] ELSE row[n]]

UpsertMalformed(keys, nonkeys) == keys = <<>> \/ nonkeys = <<>>

\* why the backend refuses the insert, or "None"
UpsertRefusal(colinfos, keys, nonkeys) ==
    IF UpsertMalformed(keys, nonkeys) \/ colinfos = <<>> THEN "ProgrammingError"
    ELSE "None"

Upsert(names, rows, staged, keys, nonkeys) ==
    LET matches(r) == {e \in staged : SameKey(r, e, keys)}
        updated == {IF matches(r) = {} THEN r
                    ELSE Excluded(r, CHOOSE e \in matches(r) : TRUE, nonkeys) : r \in rows}
        inserted == {[n \in Range(names) |->
                        IF n \in Range(keys) \cup Range(nonkeys) THEN e[n] ELSE NULL] :
                     e \in {e \in staged : \A r \in rows : ~SameKey(r, e, keys)}}
    IN updated \cup inserted

\* ---- the call

Issue(stmt) == Append(call.issued, stmt)

\* an exception leaves the try block: the finally clause runs next
LoadRaise(e, outcome, refusal, issued) ==
    call' = [call EXCEPT !.pc = "finally", !.error = e, !.issued = issued,
                         !.faulted = @ \/ IsFault(outcome, refusal)]

loadRest == <<load, colVars, jobVars, otherVars>>

\* the call starts; or the same call is made again on the same adapter
LoadFromCsv ==
    /\ \/ call.pc = "call"
       \/ call.pc = "ended" /\ call.n < MaxLoads
    /\ call' = [NoCall EXCEPT !.n = call.n + 1, !.faulted = call.faulted,
                  !.pc = IF load.merge = "truncate" THEN "truncate"
                         ELSE IF load.merge = "upsert" THEN "colinfos" ELSE "copy"]
    /\ UNCHANGED <<pgdb, loadRest>>

\* merge in ['truncate', 'truncate-cascade']: self.truncate_table
LoadTruncate ==
    /\ call.pc = "truncate"
    /\ LET refusal == IF load.schema = <<>> THEN "ProgrammingError" ELSE "None"
       IN \E outcome \in Outcomes(pgdb, refusal # "None") :
            IF outcome = "ok"
            THEN /\ pgdb' = [pgdb EXCEPT !.rows = {}]
                 /\ call' = [call EXCEPT !.pc = "copy", !.issued = Issue("TRUNCATE")]
            ELSE /\ pgdb' = Failed(pgdb, outcome)
                 /\ LoadRaise(Raised(outcome, refusal), outcome, refusal, Issue("TRUNCATE"))
    /\ UNCHANGED loadRest

\* merge == 'upsert': retrieve information about the columns
RetrieveColumns ==
    /\ call.pc = "colinfos"
    /\ \E outcome \in Outcomes(pgdb, FALSE) :
            IF outcome = "ok"
            THEN /\ pgdb' = pgdb
                 /\ call' = [call EXCEPT !.pc = "build", !.issued = Issue("SELECT columns")]
            ELSE /\ pgdb' = Failed(pgdb, outcome)
                 /\ LoadRaise(Raised(outcome, "None"), outcome, "None", Issue("SELECT columns"))
    /\ UNCHANGED loadRest

\* tmp_tab gets its name, then the CREATE statement is put together
BuildTempTable ==
    /\ call.pc = "build"
    /\ LET built == BuildTemp(load.schema, load.columns)
       IN IF built.raises
          THEN call' = [call EXCEPT !.pc = "finally", !.tmp_tab = TRUE,
                            !.error = Err("ValueError", MSG_PRIMARY_KEY, <<"id">>)]
          ELSE call' = [call EXCEPT !.pc = "create", !.tmp_tab = TRUE,
                            !.pieces = built.pieces,
                            !.key_columns = built.key_columns,
                            !.nonkey_target_columns = built.nonkey_target_columns]
    /\ UNCHANGED <<pgdb, loadRest>>

\* self.execute_query(CREATE TEMPORARY TABLE ...)
CreateTempTable ==
    /\ call.pc = "create"
    /\ LET refusal == IF CreateMalformed(call.pieces) THEN "ProgrammingError" ELSE "None"
       IN \E outcome \in Outcomes(pgdb, refusal # "None") :
            IF outcome = "ok"
            THEN /\ pgdb' = [pgdb EXCEPT !.staging =
                                [exists |-> TRUE,
                                 names |-> [j \in 1..Len(call.pieces) |-> call.pieces[j].name],
                                 rows |-> {}]]
                 /\ call' = [call EXCEPT !.pc = "copy",
                                         !.issued = Issue("CREATE TEMPORARY TABLE")]
            ELSE /\ pgdb' = Failed(pgdb, outcome)
                 /\ LoadRaise(Raised(outcome, refusal), outcome, refusal,
                              Issue("CREATE TEMPORARY TABLE"))
    /\ UNCHANGED loadRest

\* self._actual_copy: into the staging table if there is one, else the target
ActualCopy ==
    /\ call.pc = "copy"
    /\ LET names == IF call.tmp_tab THEN pgdb.staging.names ELSE InfoNames(load.schema)
           infos == IF call.tmp_tab THEN StagingInfos(load.schema, call.pieces)
                    ELSE load.schema
           rows == IF call.tmp_tab THEN pgdb.staging.rows ELSE pgdb.rows
           list == CopyList(load.columns, names)
           refusal == IF ~call.tmp_tab /\ load.schema = <<>> THEN "ProgrammingError"
                      ELSE CopyRefusal(infos, names, rows, list, load.file)
       IN \E outcome \in Outcomes(pgdb, refusal # "None") :
            IF outcome = "ok"
            THEN /\ pgdb' = IF call.tmp_tab
                            THEN [pgdb EXCEPT !.staging.rows = @ \cup Copied(names, list, load.file)]
                            ELSE [pgdb EXCEPT !.rows = @ \cup Copied(names, list, load.file)]
                 /\ call' = [call EXCEPT !.pc = IF call.tmp_tab THEN "upsert" ELSE "finally",
                                         !.issued = Issue("COPY")]
            ELSE /\ pgdb' = Failed(pgdb, outcome)
                 /\ LoadRaise(Raised(outcome, refusal), outcome, refusal, Issue("COPY"))
    /\ UNCHANGED loadRest

\* upsert from the staging table into the target
UpsertFromTmp ==
    /\ call.pc = "upsert"
    /\ LET refusal == UpsertRefusal(load.schema, call.key_columns, call.nonkey_target_columns)
       IN \E outcome \in Outcomes(pgdb, refusal # "None") :
            IF outcome = "ok"
            THEN /\ pgdb' = [pgdb EXCEPT !.rows =
                                Upsert(InfoNames(load.schema), @, pgdb.staging.rows,
                                       call.key_columns, call.nonkey_target_columns)]
                 /\ call' = [call EXCEPT !.pc = "finally",
                                         !.issued = Issue("INSERT ON CONFLICT")]
            ELSE /\ pgdb' = Failed(pgdb, outcome)
                 /\ LoadRaise(Raised(outcome, refusal), outcome, refusal,
                              Issue("INSERT ON CONFLICT"))
    /\ UNCHANGED loadRest

\* finally: if tmp_tab: DROP TABLE IF EXISTS, dropping only after a success
FinallyDropsOnSuccess(tmp_tab, e) == tmp_tab /\ e = NoError

\* finally: if tmp_tab: DROP TABLE IF EXISTS
FinallyDrops(tmp_tab, e) == tmp_tab

\* a DROP TABLE IF EXISTS of a session's own temporary table that reaches
\* the backend takes effect
DropOutcomes(d) == Outcomes(d, FALSE) \ {"error"}

\* the finally clause, then the result or the exception reaches the caller
LoadFinally ==
    /\ call.pc = "finally"
    /\ \E outcome \in DropOutcomes(pgdb) :
         LET drops == FinallyDrops(call.tmp_tab, call.error)
             after == IF ~drops THEN pgdb
                      ELSE IF outcome = "ok" THEN [pgdb EXCEPT !.staging = NoStaging]
                      ELSE Failed(pgdb, outcome)
         IN /\ pgdb' = [after EXCEPT !.afterFirst = IF call.n = 1 THEN after.rows ELSE @]
            /\ call' = [call EXCEPT
                          !.pc = "ended",
                          !.issued = IF drops THEN Issue("DROP TABLE IF EXISTS") ELSE @,
                          !.error = IF drops /\ outcome # "ok"
                                    THEN Raised(outcome, "None") ELSE @,
                          !.faulted = @ \/ (drops /\ outcome = "lost")]
    /\ UNCHANGED loadRest

NextLoad ==
    \/ LoadFromCsv
    \/ LoadTruncate
    \/ RetrieveColumns
    \/ BuildTempTable
    \/ CreateTempTable
    \/ ActualCopy
    \/ UpsertFromTmp
    \/ LoadFinally

SpecLoad == InitLoad /\ [][NextLoad]_vars

(***************************************************************************)
(* Claims on load_from_csv (SpecLoad).                                     *)
(***************************************************************************)
LoadEnded == call.pc = "ended"

C4_IdempotentUpsert ==
    (LoadEnded /\ load.merge = "upsert" /\ load.schema # <<>>
        /\ call.n >= 2 /\ ~call.faulted) =>
            /\ pgdb.rows = pgdb.afterFirst
            /\ Cardinality(pgdb.rows) = Cardinality(pgdb.afterFirst)

\* C4 happens: the second run has returned, and the first run both inserted
\* a row and changed one
C4_Witness ==
    /\ LoadEnded
    /\ load.merge = "upsert"
    /\ call.n = 2
    /\ ~call.faulted
    /\ call.error = NoError
    /\ Cardinality(pgdb.rows) > Cardinality(pgdb.before)
    /\ \E r \in pgdb.before : r \notin pgdb.rows

\* C30: the column list of the create temporary table statement built for
\* an upsert into a table that has columns, with a columns argument that
\* holds every primary key column: its
\* first piece has no comma before it, every later piece has one, and its
\* columns are the requested ones (all the table's when none is requested)
C30_TempTableWellFormed ==
    (call.pc = "create" /\ load.schema # <<>>) =>
        /\ \A j \in 1..Len(call.pieces) : call.pieces[j].comma <=> j > 1
        /\ {call.pieces[j].name : j \in 1..Len(call.pieces)} =
              IF load.columns = <<>> THEN Range(InfoNames(load.schema))
              ELSE Range(load.columns)

(***************************************************************************)
(* Claims on the order of a job's phases (Spec).                           *)
(***************************************************************************)
PreparationStatements == {"SELECT schema", "CREATE SCHEMA", "CREATE TABLE", "DROP TABLE", "TRUNCATE"}
CopyStatements == {"ALTER DEFAULT", "ALTER REVERT", "COPY FROM"}

\* the statements a step sends
Sent == {statements'[i] : i \in (Len(statements) + 1)..Len(statements')}

\* C11: a from_csv job goes through dialect resolution, schema
\* reconciliation, target preparation and bulk copy strictly in this order;
\* an error in a phase prevents every later phase (all that follows it is the
\* finally block of the phase it was raised in), so a step of dialect
\* resolution or of reconciliation, failing or not, leaves the job without
\* any CREATE, DROP, TRUNCATE, ALTER or COPY statement sent.
C11_PhaseOrder ==
    [][job.kind = "from_csv" =>
        /\ (Phase(pc') \in {Phase(pc), Phase(pc) + 1} \/ Phase(pc') = 5)
        /\ (error' # NoError) => (Phase(pc') = 5 \/ (pc' = "copy_reverts" /\ Phase(pc) = 4))
        /\ (error # NoError) => (Phase(pc') = 5 /\ Sent \subseteq {"ALTER REVERT"})
        /\ Sent \cap PreparationStatements # {} => Phase(pc) = 3
        /\ Sent \cap CopyStatements # {} => Phase(pc) = 4
        /\ Phase(pc) \in {1, 2} =>
                Range(statements') \cap (PreparationStatements \cup CopyStatements) = {}
    ]_vars

\* C11 happens: a from_csv job has ended on a reconciliation error
C11_Witness ==
    /\ job.kind = "from_csv"
    /\ pc = "done"
    /\ ctx.reconciled
    /\ result.unused # <<>>
    /\ ctx.columnsDefault # result.unused
    /\ error # NoError
    /\ Range(statements) \cap (PreparationStatements \cup CopyStatements) = {}

(***************************************************************************)
(* csv_pg/column.py: Column.from_spec on a spec given character by         *)
(* character (SpecParse): the regular expression that separates the name   *)
(* from the option tail, split_options, the if-chain over the options and  *)
(* the constructor.  A string is the sequence of its characters.           *)
(***************************************************************************)
MaxTail == 3

RECURSIVE Join(_)
Join(chars) == IF chars = <<>> THEN "" ELSE Head(chars) \o Join(Tail(chars))

\* str.strip() for the whitespace of the model, the space
RECURSIVE LStrip(_)
LStrip(chars) == IF chars # <<>> /\ Head(chars) = " " THEN LStrip(Tail(chars)) ELSE chars

RECURSIVE RStrip(_)
RStrip(chars) ==
    IF chars # <<>> /\ chars[Len(chars)] = " "
    THEN RStrip(SubSeq(chars, 1, Len(chars) - 1)) ELSE chars

Strip(chars) == RStrip(LStrip(chars))

Lower == {"a", "c", "d", "e", "f", "h", "i", "k", "l", "m", "n", "p", "q", "r", "s",
          "t", "u", "v"}
Digits == {"1", "2"}
DigitValue(c) == IF c = "1" THEN 1 ELSE 2

\* the option tails: every string of at most MaxTail characters of the
\* alphabet, alone and after "default(" and "pk-"; and the tails of the
\* documented grammar
TailAlphabet == {"-", "(", ")", "'", "a", " "}
ShortTails == UNION {[1..n -> TailAlphabet] : n \in 0..MaxTail}
TailPrefixes == {<<>>, <<"d", "e", "f", "a", "u", "l", "t", "(">>, <<"p", "k", "-">>}
I_N_T == <<"i", "n", "t">>
P_K == <<"p", "k">>
S_E_Q == <<"s", "e", "q">>
Hyphen == <<"-">>
SeqTails ==
    { I_N_T \o Hyphen \o P_K \o Hyphen \o S_E_Q, I_N_T \o Hyphen \o S_E_Q \o Hyphen \o P_K,
      P_K \o Hyphen \o I_N_T \o Hyphen \o S_E_Q, P_K \o Hyphen \o S_E_Q \o Hyphen \o I_N_T,
      S_E_Q \o Hyphen \o I_N_T \o Hyphen \o P_K, S_E_Q \o Hyphen \o P_K \o Hyphen \o I_N_T }
GrammarTails ==
    { <<"d", "e", "f", "a", "u", "l", "t", "(", "'", "a", "-", "a", "'", ")">>,
      <<"v", "a", "r", "c", "h", "a", "r", " ", "(", " ", "1", "2", ")", "-", "i", "x">>,
      <<"d", "e", "c", "i", "m", "a", "l", "(", "1", "2", ",", " ", "2", ")">>,
      <<"n", "o", "t", "n", "u", "l", "l", " ", "-", "-", "f", "i", "l", "e", "n", "a", "m", "e">>,
      <<"t", "i", "m", "e", "s", "t", "a", "m", "p", "(", "1", ")", "-", "f", "i", "l", "e", "p", "a", "t", "h">> }

SpecStrings ==
    {<<"c">>, <<":", "a">>}
    \cup {<<"c", ":">> \o prefix \o t : prefix \in TailPrefixes, t \in ShortTails}
    \cup {<<"i", "d", ":">> \o t : t \in SeqTails}
    \cup {<<"c", " ", ":">> \o t : t \in GrammarTails}

NoScan == [spec |-> <<>>, status |-> "spec", name |-> "", options |-> <<>>, i |-> 1,
           in_parenthesis |-> 0, in_string |-> FALSE, accu |-> <<>>,
           parsed_options |-> <<>>, error |-> NoError, returned |-> FALSE,
           column |-> None]

InitParse ==
    /\ scan \in {[NoScan EXCEPT !.spec = spec] : spec \in SpecStrings}
    /\ op = "idle" /\ txt = "idle" /\ ddl = "idle"
    /\ target = <<>>
    /\ other = <<>>
    /\ selfColumns = <<>>
    /\ result = NoResult
    /\ MergeTraceIdle
    /\ JobIdle
    /\ LoadIdle

parseRest == <<op, txt, ddl, colVars, jobVars, loadVars>>

\* the index of the first ":" of the spec, or 0
FirstColon(chars) ==
    IF \E k \in 1..Len(chars) : chars[k] = ":"
    THEN CHOOSE k \in 1..Len(chars) : chars[k] = ":" /\ \A j \in 1..(k - 1) : chars[j] # ":"
    ELSE 0

\* re.match(r"^(?P<name>[^\:]+)(?:\:(?P<options>.+))?$", spec)
MatchSpec ==
    /\ scan.status = "spec"
    /\ LET k == FirstColon(scan.spec)
           n == Len(scan.spec)
       IN IF k = 1 \/ k = n
          THEN scan' = [scan EXCEPT !.status = "done",
                            !.error = Err("ValueError", "invalid column spec", <<Join(scan.spec)>>)]
          ELSE IF k = 0
          THEN scan' = [scan EXCEPT !.status = "split", !.name = Join(Strip(scan.spec))]
          ELSE scan' = [scan EXCEPT !.status = "splitting",
                            !.name = Join(Strip(SubSeq(scan.spec, 1, k - 1))),
                            !.options = SubSeq(scan.spec, k + 1, n)]
    /\ UNCHANGED parseRest

\* accu = accu.strip(); if accu: parsed_options.append(accu)
Flush(accu, parsed_options) ==
    IF Strip(accu) # <<>> THEN Append(parsed_options, Strip(accu)) ELSE parsed_options

\* split_options, one turn of "for c in options" that does not raise
SplitStep(s, c) ==
    IF c = "-"
    THEN IF s.in_parenthesis > 0
         THEN [s EXCEPT !.accu = Append(@, c), !.i = @ + 1]
         ELSE [s EXCEPT !.parsed_options = Flush(s.accu, @), !.accu = <<>>, !.i = @ + 1]
    ELSE LET s1 == [s EXCEPT !.accu = Append(@, c), !.i = @ + 1]
         IN IF c = "(" /\ ~s.in_string THEN [s1 EXCEPT !.in_parenthesis = @ + 1]
            ELSE IF c = ")" /\ ~s.in_string THEN [s1 EXCEPT !.in_parenthesis = @ - 1]
            ELSE IF c = "'" /\ s.in_parenthesis > 0 THEN [s1 EXCEPT !.in_string = ~@]
            ELSE s1

\* split_options, the turn that raises: ")" at depth 0 outside a string
SplitRaises(s, c) == c = ")" /\ ~s.in_string /\ s.in_parenthesis = 0

SplitChar ==
    /\ scan.status = "splitting"
    /\ scan.i <= Len(scan.options)
    /\ LET c == scan.options[scan.i]
       IN IF SplitRaises(scan, c)
          THEN scan' = [scan EXCEPT !.status = "done", !.accu = Append(@, c),
                            !.error = Err("ValueError", "syntax error: cannot close parenthis",
                                          <<Join(Append(scan.accu, c))>>)]
          ELSE scan' = SplitStep(scan, c)
    /\ UNCHANGED parseRest

\* split_options after the loop
SplitEnd ==
    /\ scan.status = "splitting"
    /\ scan.i > Len(scan.options)
    /\ scan' = [scan EXCEPT !.status = "split", !.parsed_options = Flush(scan.accu, @),
                            !.accu = <<>>]
    /\ UNCHANGED parseRest

\* ---- the if-chain of from_spec over one option

\* the end of the longest run of characters of the class that starts at k
RECURSIVE RunEnd(_, _, _)
RunEnd(chars, k, class) ==
    IF k <= Len(chars) /\ chars[k] \in class THEN RunEnd(chars, k + 1, class) ELSE k

RECURSIVE IntOf(_)
IntOf(chars) ==
    IF chars = <<>> THEN 0 ELSE 10 * IntOf(SubSeq(chars, 1, Len(chars) - 1))
                                   + DigitValue(chars[Len(chars)])

At(chars, k) == IF k <= Len(chars) THEN chars[k] ELSE ""

\* ^([a-z]+)\s*\(\s*(\d+)\s*(,\s*(\d+)\s*)?\)$ : the two type patterns
MatchType(o) ==
    LET a == RunEnd(o, 1, Lower)
        b == RunEnd(o, a, {" "})
        c == RunEnd(o, b + 1, {" "})
        d == RunEnd(o, c, Digits)
        e == RunEnd(o, d, {" "})
        f == RunEnd(o, e + 1, {" "})
        g == RunEnd(o, f, Digits)
        h == RunEnd(o, g, {" "})
        head == a > 1 /\ At(o, b) = "(" /\ d > c
    IN IF head /\ At(o, e) = ")" /\ e = Len(o)
       THEN Opt("type_p", Join(SubSeq(o, 1, a - 1)), IntOf(SubSeq(o, c, d - 1)), NoInt)
       ELSE IF head /\ At(o, e) = "," /\ g > f /\ At(o, h) = ")" /\ h = Len(o)
       THEN Opt("type_ps", Join(SubSeq(o, 1, a - 1)), IntOf(SubSeq(o, c, d - 1)),
                IntOf(SubSeq(o, f, g - 1)))
       ELSE Opt("type", Join(o), NoInt, NoInt)

DefaultOpen == <<"d", "e", "f", "a", "u", "l", "t", "(">>

\* the branch an option takes
Classify(o) ==
    IF Join(o) \in {"notnull", "pk", "ix", "seq", "filename", "filepath"} THEN Flag(Join(o))
    ELSE IF Len(o) >= 10 /\ SubSeq(o, 1, 8) = DefaultOpen /\ o[Len(o)] = ")"
    THEN Opt("default", Join(SubSeq(o, 9, Len(o) - 1)), NoInt, NoInt)
    ELSE MatchType(o)

\* the loop over the options, then Column(...)
OptionLoop ==
    /\ scan.status = "split"
    /\ LET opts == [k \in 1..Len(scan.parsed_options) |-> Classify(scan.parsed_options[k])]
           l == ApplyOptions(SpecLocals0, opts)
       IN IF FromSpecRaises(opts)
          THEN scan' = [scan EXCEPT !.status = "done",
                            !.error = Err("NotImplementedError", "data type",
                                          <<l.datatype, scan.name>>)]
          ELSE scan' = [scan EXCEPT !.status = "done", !.returned = TRUE,
                            !.column = FromSpec(scan.name, opts, TRUE)]
    /\ UNCHANGED parseRest

NextParse ==
    \/ MatchSpec
    \/ SplitChar
    \/ SplitEnd
    \/ OptionLoop

SpecParse == InitParse /\ [][NextParse]_vars

(***************************************************************************)
(* Claims on Column.from_spec (SpecParse).                                 *)
(***************************************************************************)
IdSeqSpecs == {<<"i", "d", ":">> \o t : t \in SeqTails}

\* C12: from_spec("id:int-pk-seq") returns the column named "id" of data
\* type INT, primary key, default auto-sequence, not null, not indexed,
\* without precision or scale; and so it does for every order of the options
\* int, pk and seq.
C12_IdIntPkSeq ==
    (scan.status = "done" /\ scan.spec \in IdSeqSpecs) =>
        /\ scan.error = NoError
        /\ scan.returned
        /\ scan.column = [name |-> "id", slug |-> "id", datatype |-> "int",
                          precision |-> NoInt, scale |-> NoInt, notnull |-> TRUE,
                          primarykey |-> TRUE, index |-> FALSE, default |-> DEFAULT_SEQ]

\* C12 happens: from_spec has returned for "id:int-pk-seq"
C12_Witness ==
    /\ scan.status = "done"
    /\ scan.spec = <<"i", "d", ":", "i", "n", "t", "-", "p", "k", "-", "s", "e", "q">>
    /\ scan.returned

\* the parenthesis depth and the quote state after the first n characters of
\* a tail, both tracked over the whole tail; bad: a ")" came at depth 0
RECURSIVE NestingAfter(_, _)
NestingAfter(chars, n) ==
    IF n = 0 THEN [depth |-> 0, quoted |-> FALSE, bad |-> FALSE]
    ELSE LET s == NestingAfter(chars, n - 1)
             c == chars[n]
         IN IF c = "'" THEN [s EXCEPT !.quoted = ~@]
            ELSE IF s.quoted THEN s
            ELSE IF c = "(" THEN [s EXCEPT !.depth = @ + 1]
            ELSE IF c = ")" THEN IF s.depth = 0 THEN [s EXCEPT !.bad = TRUE]
                                 ELSE [s EXCEPT !.depth = @ - 1]
            ELSE s

Unmatched(chars) == NestingAfter(chars, Len(chars)).bad
Unclosed(chars) == NestingAfter(chars, Len(chars)).depth > 0

\* C13: from_spec raises and returns no Column for every spec whose option
\* tail has a closing parenthesis with no matching open one or an opening
\* parenthesis that is never closed (outside single-quoted strings).
C13_RejectsMalformedNesting ==
    (scan.status = "done" /\ (Unmatched(scan.options) \/ Unclosed(scan.options))) =>
        /\ scan.error # NoError
        /\ ~scan.returned

IsSeparator(chars, k) ==
    /\ chars[k] = "-"
    /\ NestingAfter(chars, k - 1).depth = 0
    /\ ~NestingAfter(chars, k - 1).quoted

\* the trimmed non-empty segments between the separators, in order
RECURSIVE Segments(_, _, _, _)
Segments(chars, k, accu, found) ==
    IF k > Len(chars) THEN Flush(accu, found)
    ELSE IF IsSeparator(chars, k) THEN Segments(chars, k + 1, <<>>, Flush(accu, found))
    ELSE Segments(chars, k + 1, Append(accu, chars[k]), found)

\* C14: split_options separates at a hyphen only if the hyphen is outside
\* every parenthesis and outside every single-quoted string, depth and quote
\* state being tracked over the whole tail; it returns the trimmed non-empty
\* segments between the separators, in order.
C14_SplitOptions ==
    scan.status = "split" => scan.parsed_options = Segments(scan.options, 1, <<>>, <<>>)


(***************************************************************************)
(* Spec errors of a transfer job                                           *)
(***************************************************************************)
\* the spec errors a job can raise: from_spec on a declared column or on a
\* value of the header, and the check of dateformat
SpecErrors ==
    {SpecsError(l) : l \in {d \in DeclaredLists : SpecsRaise(d)}}
        \cup {SpecsError(h) : h \in {d \in HeaderInputs : SpecsRaise(d)}}
        \cup {Err("ValueError", MSG_DATEFORMAT, <<f>>) : f \in DateFormats \ ({None} \cup VALID_DATEFORMATS)}

\* C15: a job that raised a spec error (column grammar, unsupported data
\* type, invalid dateformat) has opened no connection, executed no statement
\* and read nothing of the csv file, and the error names the offending
\* column or token
C15_SpecErrorsBeforeIO ==
    (IsTransfer /\ error \in SpecErrors) =>
        /\ conn.opened = 0
        /\ statements = <<>>
        /\ ~ctx.fileRead
        /\ error.names # <<>>


(***************************************************************************)
(* get_table_columns on an absent table                                    *)
(***************************************************************************)
\* C16: get_table_columns returns None exactly when the table does not
\* exist: prepare_table goes on to create_table, and prepare_columns_from_table
\* of a job without requested columns leaves self.columns None, exactly when
\* there is no table, so that a table that exists with no column is not
\* taken for an absent one
C16_AbsentIffNoTable ==
    [][/\ (pc = "table_get" /\ error' = NoError) => ((pc' = "table_create") <=> ~db.exists)
       /\ (pc = "columns" /\ job.kind = "to_csv" /\ selfColumns = <<>> /\ error' = NoError) =>
               (ctx'.columnsNone <=> ~db.exists)
    ]_vars

\* the step sends the statement s to the backend
Issued(s) ==
    /\ Len(statements') > Len(statements)
    /\ \E i \in (Len(statements) + 1)..Len(statements') : statements'[i] = s

\* C24: in prepare_table of from_csv, create table is sent only while the
\* table does not exist, drop table and truncate only while it exists, the
\* create of a recreate comes right after the drop, and the table exists
\* when prepare_table returns
C24_PrepareTableOrder ==
    [][(job.kind = "from_csv") =>
          /\ Issued("CREATE TABLE") => ~db.exists
          /\ Issued("DROP TABLE") \/ Issued("TRUNCATE") => db.exists
          /\ (pc = "table_recreate" /\ Issued("CREATE TABLE")) =>
                 statements[Len(statements)] = "DROP TABLE"
          /\ (pc \in {"table_get", "table_create", "table_recreate", "table_truncate"}
                /\ pc' = "copy_build") => db'.exists
    ]_vars

\* C26: from_csv with noheader and given columns: create_table finds the
\* list of default-only columns defined (no AttributeError on
\* columns_default), and the table it has created when the copy starts has
\* exactly the given columns, in their order
C26_NoHeaderCreatesTable ==
    (job.kind = "from_csv" /\ job.noheader /\ selfColumns # <<>>) =>
        /\ error # Err("AttributeError", "columns_default", <<>>)
        /\ (pc = "copy_build" /\ "CREATE TABLE" \in Range(statements)) =>
               db.table = CreatedTable(selfColumns)

\* C27: outside the try and finally blocks of copy_from no column of the
\* table has its default set to the literal of the job's file: every
\* default copy_from altered is set back when it returns or raises
C27_DefaultsSetBack ==
    (job.kind = "from_csv" /\ pc \notin {"copy_updates", "copy", "copy_reverts"}) =>
        db.altered = {}

\* C28: every identifier in the column list of the copy ... to statement of
\* to_csv is the name of a column of the table, the one whose slug is the
\* slug of the requested column
C28_CopyToNamesTableColumns ==
    (job.kind = "to_csv" /\ statements # <<>> /\ statements[Len(statements)] = "COPY TO") =>
        \A i \in 1..Len(ctx.copyColumns) :
            /\ ctx.copyColumns[i] \in TableNames(db.table)
            /\ Slugen(ctx.copyColumns[i]) = selfColumns[i].slug

\* C29: to_csv onto a csv file that exists with a header, without truncate
\* or recreate: a header column that is not exported fails the job before
\* the copy; the copy carries no header option, exports the columns of the
\* header in their order, and its output is appended to the file.  With
\* truncate or recreate, the copy carries the header option and its output
\* replaces the content of the file
C29_AppendsUnderHeader ==
    (job.kind = "to_csv" /\ ~job.noheader) =>
        /\ (error.kind = "ValueError" /\ error.msg = MSG_UNEXPECTED_COLUMN) =>
               "COPY TO" \notin Range(statements)
        /\ (pc = "exit" /\ ctx.fileRead /\ "COPY TO" \in Range(statements)
              /\ error # BackendError) =>
               /\ ~ctx.copyHeader
               /\ SlugsOf(selfColumns) = SlugsOf(ParseSpecs(file.header))
               /\ error = NoError
        /\ (pc = "exit" /\ (job.truncate \/ job.recreate) /\ "COPY TO" \in Range(statements)
              /\ error # BackendError) =>
               /\ ctx.copyHeader
               /\ ctx.written = "replaced"
               /\ error = NoError

(***************************************************************************)
(* zut.db: get_db_adapter, then one call on the adapter it returned:       *)
(* truncate_table, load_from_csv or the pagination of a query              *)
(* (SpecAdapter).  op is the call: the adapter, the arguments, the         *)
(* statements executed on the backend, the exception and the result.       *)
(***************************************************************************)
MaxRows == 2
MaxPage == 1

PG_SCHEMES == {"postgresql", "postgres", "pg"}
MSSQL_SCHEMES == {"mssql", "mssqls"}
MYSQL_SCHEMES == {"mysql", "mariadb"}

\* the schemes of the URLs given to get_db_adapter; "" stands for no scheme
Schemes == PG_SCHEMES \cup MSSQL_SCHEMES \cup MYSQL_SCHEMES \cup {"sqlite", ""}

Adapters == {"PgAdapter", "Pg2Adapter", "MysqlAdapter", "MssqlAdapter"}

\* the part of the URL that DbAdapter.__init__ refuses, if any
UrlExtras == {"", "fragment", "query", "params"}

Urls == [scheme : Schemes, extra : UrlExtras]

URL_SCHEME(adapter) ==
    IF adapter \in {"PgAdapter", "Pg2Adapter"} THEN "postgresql"
    ELSE IF adapter = "MysqlAdapter" THEN "mysql"
    ELSE "mssql"

ALT_SCHEMES(adapter) ==
    IF adapter \in {"PgAdapter", "Pg2Adapter"} THEN {"pg", "postgres"} ELSE {}

MSG_UNSUPPORTED_ENGINE == "unsupported db engine"
MSG_NO_SCHEME == "invalid db: no scheme in"
MSG_NOT_AVAILABLE == "not available"
MSG_INVALID_SCHEME == "invalid scheme"
MSG_UNEXPECTED == "unexpected"

\* get_db_adapter, the choice of the class from the scheme of the URL
AdapterClass(scheme, available) ==
    IF scheme \in PG_SCHEMES
    THEN IF "PgAdapter" \in available THEN [adapter |-> "PgAdapter", error |-> NoError]
         ELSE IF "Pg2Adapter" \in available THEN [adapter |-> "Pg2Adapter", error |-> NoError]
         ELSE [adapter |-> None, error |-> Err("ValueError", MSG_NOT_AVAILABLE, <<"PgAdapter", "Pg2Adapter">>)]
    ELSE IF scheme \in MSSQL_SCHEMES THEN [adapter |-> "MssqlAdapter", error |-> NoError]
    ELSE IF scheme \in MYSQL_SCHEMES THEN [adapter |-> "MysqlAdapter", error |-> NoError]
    ELSE IF scheme # "" THEN [adapter |-> None, error |-> Err("ValueError", MSG_UNSUPPORTED_ENGINE, <<scheme>>)]
    ELSE [adapter |-> None, error |-> Err("ValueError", MSG_NO_SCHEME, <<>>)]

\* DbAdapter.__init__ on the parsed URL: the exception it raises, if any
DbAdapterInit(adapter, url, available) ==
    IF adapter \notin available THEN Err("ValueError", MSG_NOT_AVAILABLE, <<adapter>>)
    ELSE IF url.extra # "" THEN Err("ValueError", MSG_UNEXPECTED, <<url.extra>>)
    ELSE IF url.scheme # URL_SCHEME(adapter) /\ url.scheme \notin ALT_SCHEMES(adapter)
    THEN Err("ValueError", MSG_INVALID_SCHEME, <<url.scheme>>)
    ELSE NoError

\* get_db_adapter on a URL
GetDbAdapterOf(url, available) ==
    LET c == AdapterClass(url.scheme, available)
    IN IF c.error # NoError THEN c
       ELSE IF c.adapter \notin available
       THEN [adapter |-> None, error |-> Err("ValueError", MSG_NOT_AVAILABLE, <<c.adapter>>)]
       ELSE LET e == DbAdapterInit(c.adapter, url, available)
            IN IF e # NoError THEN [adapter |-> None, error |-> e]
               ELSE [adapter |-> c.adapter, error |-> NoError]

\* an exception of the driver on execute
DriverError == Err("DatabaseError", "", <<>>)

MSG_CASCADE == "Cascade truncate is not supported by mssql."

\* truncate_table of MysqlAdapter and MssqlAdapter with cascade: answered FALSE
CascadeIgnored(adapter, cascade) == FALSE

\* truncate_table of MysqlAdapter and MssqlAdapter: if cascade: raise
CascadeRefused(adapter, cascade) == adapter \in {"MysqlAdapter", "MssqlAdapter"} /\ cascade

\* truncate_table: the statements executed and the exception
TruncateTableOf(adapter, cascade, fails) ==
    IF CascadeRefused(adapter, cascade)
    THEN [statements |-> <<>>, error |-> Err("ValueError", MSG_CASCADE, <<>>)]
    ELSE [statements |-> <<IF cascade THEN "TRUNCATE TABLE CASCADE" ELSE "TRUNCATE TABLE">>,
          error |-> IF fails THEN DriverError ELSE NoError]

Merges == {None, "truncate", "truncate-cascade", "upsert"}

\* the arguments of load_from_csv: file is a stream or a path, columns given
\* or not, noheaders, merge, and the null value that _get_csv_params returns
LoadArgs == [stream : BOOLEAN, columns : BOOLEAN, noheaders : BOOLEAN, merge : Merges,
             nullval : {"", "NULL"}]

MSG_IOBASE == "Cannot use IOBase file with mssql."
MSG_COLUMNS_NOHEADERS == "Arguments 'columns' or 'noheaders' cannot be used yet."
MSG_NULLVAL == "Invalid csv nullval for mssql"
MSG_UPSERT == "Cannot use 'upsert' yet"

Refused(kind, msg) == [statements |-> <<>>, error |-> Err(kind, msg, <<>>)]

\* MssqlAdapter.load_from_csv up to the BULK INSERT
MssqlLoadPrepare(args, fails) ==
    IF args.stream THEN Refused("NotImplementedError", MSG_IOBASE)
    ELSE IF args.columns \/ ~args.noheaders THEN Refused("NotImplementedError", MSG_COLUMNS_NOHEADERS)
    ELSE IF args.nullval # "" THEN Refused("ValueError", MSG_NULLVAL)
    ELSE IF args.merge \in {"truncate", "truncate-cascade"}
    THEN TruncateTableOf("MssqlAdapter", args.merge = "truncate-cascade", fails)
    ELSE IF args.merge = "upsert" THEN Refused("NotImplementedError", MSG_UPSERT)
    ELSE [statements |-> <<>>, error |-> NoError]

\* MysqlAdapter.load_from_csv up to the LOAD DATA
MysqlLoadPrepare(args, fails) ==
    IF args.stream THEN Refused("NotImplementedError", MSG_IOBASE)
    ELSE IF args.merge \in {"truncate", "truncate-cascade"}
    THEN TruncateTableOf("MysqlAdapter", args.merge = "truncate-cascade", fails)
    ELSE [statements |-> <<>>, error |-> NoError]

\* the bulk-load statement of the backend
BulkStatement(adapter, args) ==
    IF adapter = "MssqlAdapter" THEN "BULK INSERT"
    ELSE IF args.merge = "upsert" THEN "LOAD DATA REPLACE"
    ELSE "LOAD DATA"

\* rowcount of a cursor on which nothing was executed, by driver
FreshRowcounts == {0 - 1, 0}

\* a SELECT query as _parse_select_query sees it: how many statements, the
\* first DML keyword, the text before it, from it, and from ORDER BY
Query(n, dml, before, select, order) ==
    [statements |-> n, dml |-> dml, before |-> before, select |-> select, order |-> order]

Queries ==
    {Query(1, "SELECT", "", "SELECT * FROM t", ""),
     Query(1, "SELECT", "", "SELECT * FROM t", "ORDER BY a"),
     Query(1, "SELECT", "WITH c AS (SELECT 1 AS a) ", "SELECT * FROM c", ""),
     Query(2, "SELECT", "", "SELECT 1; SELECT 2", ""),
     Query(1, "UPDATE", "", "UPDATE t SET a = 1", ""),
     Query(1, "", "", "", "")}

\* limit and offset: None or a number
PageValues == {NoInt} \cup 0..MaxPage

DigitText == <<"0", "1", "2", "3", "4", "5", "6", "7", "8", "9">>

\* str(n) inside an f-string
RECURSIVE IntText(_)
IntText(n) == IF n < 10 THEN DigitText[n + 1] ELSE IntText(n \div 10) \o DigitText[(n % 10) + 1]

MSG_STATEMENTS == "query contains statements"
MSG_NO_SELECT == "no SELECT found (query does not contain DML keyword)"
MSG_NOT_SELECT == "first DML keyword is not SELECT"
MSG_ORDER_BY_REQUIRED == "an ORDER BY clause is required for OFFSET"

\* _parse_select_query: the white space before ORDER BY stays in selectpart
ParseSelectQuery(q) ==
    IF q.statements # 1
    THEN [error |-> Err("ValueError", MSG_STATEMENTS, <<>>), beforepart |-> "", selectpart |-> "", orderpart |-> ""]
    ELSE IF q.dml = ""
    THEN [error |-> Err("ValueError", MSG_NO_SELECT, <<>>), beforepart |-> "", selectpart |-> "", orderpart |-> ""]
    ELSE IF q.dml # "SELECT"
    THEN [error |-> Err("ValueError", MSG_NOT_SELECT, <<q.dml>>), beforepart |-> "", selectpart |-> "", orderpart |-> ""]
    ELSE [error |-> NoError, beforepart |-> q.before,
          selectpart |-> IF q.order # "" THEN q.select \o " " ELSE q.select,
          orderpart |-> q.order]

Paginated(text) == [text |-> text, error |-> NoError]

\* DbAdapter._paginate_parsed_query
BasePaginateParsedQuery(selectpart, orderpart, limit, offset) ==
    LET r0 == selectpart \o " " \o orderpart
        r1 == IF limit # NoInt THEN r0 \o " LIMIT " \o IntText(limit) ELSE r0
        r2 == IF offset # NoInt THEN r1 \o " OFFSET " \o IntText(offset) ELSE r1
    IN Paginated(r2)

\* MssqlAdapter._paginate_parsed_query
MssqlPaginateParsedQuery(selectpart, orderpart, limit, offset) ==
    IF orderpart # ""
    THEN LET r0 == selectpart \o " " \o orderpart \o " OFFSET "
                       \o IntText(IF offset = NoInt THEN 0 ELSE offset) \o " ROWS"
         IN Paginated(IF limit # NoInt THEN r0 \o " FETCH NEXT " \o IntText(limit) \o " ROWS ONLY"
                      ELSE r0)
    ELSE IF limit # NoInt
    THEN IF offset # NoInt
         THEN [text |-> None, error |-> Err("ValueError", MSG_ORDER_BY_REQUIRED, <<>>)]
         ELSE Paginated("SELECT TOP " \o IntText(limit) \o " * FROM (" \o selectpart \o ") s")
    ELSE Paginated(selectpart)

\* get_paginated_query: the paginated text, or the exception
GetPaginatedQuery(adapter, q, limit, offset) ==
    LET p == ParseSelectQuery(q)
    IN IF p.error # NoError THEN [text |-> None, error |-> p.error]
       ELSE LET r == IF adapter = "MssqlAdapter"
                     THEN MssqlPaginateParsedQuery(p.selectpart, p.orderpart, limit, offset)
                     ELSE BasePaginateParsedQuery(p.selectpart, p.orderpart, limit, offset)
            IN IF r.error # NoError THEN r
               ELSE Paginated(p.beforepart \o r.text)

NoOp == [adapter |-> None, pc |-> "start", call |-> None, args |-> <<>>, statements |-> <<>>,
         error |-> NoError, text |-> None, count |-> NoInt, executed |-> NoInt]

InitAdapter ==
    /\ op = NoOp
    /\ scan = "idle" /\ txt = "idle" /\ ddl = "idle"
    /\ target = <<>>
    /\ other = <<>>
    /\ selfColumns = <<>>
    /\ result = NoResult
    /\ MergeTraceIdle
    /\ JobIdle
    /\ LoadIdle

adapterRest == <<scan, txt, ddl, colVars, jobVars, loadVars>>

\* get_db_adapter(url), with the drivers that are installed
GetDbAdapter ==
    /\ op.pc = "start"
    /\ \E url \in Urls, available \in SUBSET Adapters :
          LET r == GetDbAdapterOf(url, available)
          IN op' = [op EXCEPT !.call = "get_db_adapter",
                              !.args = [url |-> url, available |-> available],
                              !.adapter = r.adapter,
                              !.error = r.error,
                              !.pc = IF r.error = NoError THEN "ready" ELSE "returned"]
    /\ UNCHANGED adapterRest

\* adapter.truncate_table(table, cascade=...)
AdapterTruncateTable ==
    /\ op.pc = "ready"
    /\ \E cascade \in BOOLEAN, fails \in BOOLEAN :
          LET r == TruncateTableOf(op.adapter, cascade, fails)
          IN op' = [op EXCEPT !.call = "truncate_table",
                              !.args = [cascade |-> cascade],
                              !.statements = r.statements,
                              !.error = r.error,
                              !.pc = "returned"]
    /\ UNCHANGED adapterRest

\* load_from_csv of MysqlAdapter and MssqlAdapter, up to the bulk-load statement
AdapterLoadFromCsv ==
    /\ op.pc = "ready"
    /\ op.adapter \in {"MysqlAdapter", "MssqlAdapter"}
    /\ \E args \in LoadArgs, fails \in BOOLEAN :
          LET r == IF op.adapter = "MssqlAdapter" THEN MssqlLoadPrepare(args, fails)
                   ELSE MysqlLoadPrepare(args, fails)
          IN op' = [op EXCEPT !.call = "load_from_csv",
                              !.args = args,
                              !.statements = r.statements,
                              !.error = r.error,
                              !.pc = IF r.error = NoError THEN "bulk" ELSE "returned"]
    /\ UNCHANGED adapterRest

\* load_from_csv of MysqlAdapter and MssqlAdapter: with self.cursor() as
\* cursor: self.execute_query(sql); result_count = cursor.rowcount.
\* execute_query is given no cursor and executes on one of its own.
BulkLoad ==
    /\ op.pc = "bulk"
    /\ \E loaded \in 0..MaxRows, fresh \in FreshRowcounts, fails \in BOOLEAN :
          op' = [op EXCEPT !.statements = Append(@, BulkStatement(op.adapter, op.args)),
                           !.error = IF fails THEN DriverError ELSE NoError,
                           !.executed = IF fails THEN NoInt ELSE loaded,
                           !.count = IF fails THEN NoInt ELSE fresh,
                           !.pc = "returned"]
    /\ UNCHANGED adapterRest

\* _actual_copy of PgAdapter and Pg2Adapter: the copy runs on the cursor
\* whose rowcount is returned
PgActualCopy ==
    /\ op.pc = "ready"
    /\ op.adapter \in {"PgAdapter", "Pg2Adapter"}
    /\ \E loaded \in 0..MaxRows, fails \in BOOLEAN :
          op' = [op EXCEPT !.call = "load_from_csv",
                           !.args = [stream |-> FALSE, columns |-> FALSE, noheaders |-> FALSE,
                                     merge |-> None, nullval |-> ""],
                           !.statements = <<"COPY">>,
                           !.error = IF fails THEN DriverError ELSE NoError,
                           !.executed = IF fails THEN NoInt ELSE loaded,
                           !.count = IF fails THEN NoInt ELSE loaded,
                           !.pc = "returned"]
    /\ UNCHANGED adapterRest

\* adapter.get_paginated_query(query, limit=..., offset=...)
Paginate ==
    /\ op.pc = "ready"
    /\ \E q \in Queries, limit \in PageValues, offset \in PageValues :
          LET r == GetPaginatedQuery(op.adapter, q, limit, offset)
          IN op' = [op EXCEPT !.call = "get_paginated_query",
                              !.args = [query |-> q, limit |-> limit, offset |-> offset],
                              !.text = r.text,
                              !.error = r.error,
                              !.pc = "returned"]
    /\ UNCHANGED adapterRest

NextAdapter ==
    \/ GetDbAdapter
    \/ AdapterTruncateTable
    \/ AdapterLoadFromCsv
    \/ BulkLoad
    \/ PgActualCopy
    \/ Paginate

SpecAdapter == InitAdapter /\ [][NextAdapter]_vars

(***************************************************************************)
(* Claims on the adapters (SpecAdapter).                                   *)
(***************************************************************************)
\* the calls that ask for something the backend of the adapter cannot do:
\* a cascade truncate on MySQL or SQL Server, an upsert on SQL Server, a
\* stream as the source of a load on either
CapabilityCase ==
    /\ op.adapter \in {"MysqlAdapter", "MssqlAdapter"}
    /\ \/ op.call = "truncate_table" /\ op.args.cascade
       \/ /\ op.call = "load_from_csv"
          /\ \/ op.args.merge = "truncate-cascade"
             \/ op.args.stream
             \/ op.adapter = "MssqlAdapter" /\ op.args.merge = "upsert"

\* C17: on MySQL and SQL Server a cascade truncate (truncate_table with
\* cascade, load_from_csv with merge truncate-cascade), on SQL Server an
\* upsert load, and on both a load from a stream end with an exception and
\* with no statement executed on the backend: no plain truncate, no bulk load
C17_CapabilityErrorsFailFast ==
    CapabilityCase =>
        /\ op.pc = "returned"
        /\ op.error # NoError
        /\ op.statements = <<>>

\* C17 witness: a load with merge truncate-cascade from a path on MySQL was
\* refused by truncate_table before any statement
C17_Witness ==
    /\ op.adapter = "MysqlAdapter"
    /\ op.call = "load_from_csv"
    /\ op.args.merge = "truncate-cascade"
    /\ ~op.args.stream
    /\ op.error = Err("ValueError", MSG_CASCADE, <<>>)
    /\ op.statements = <<>>

\* C18: on SQL Server, paginating a SELECT without ORDER BY with an offset
\* raises the ORDER BY error and returns no text, whatever the limit
C18_OffsetNeedsOrderBy ==
    (/\ op.call = "get_paginated_query"
     /\ op.adapter = "MssqlAdapter"
     /\ ParseSelectQuery(op.args.query).error = NoError
     /\ op.args.query.order = ""
     /\ op.args.offset # NoInt) =>
        /\ op.error = Err("ValueError", MSG_ORDER_BY_REQUIRED, <<>>)
        /\ op.text = None

\* the adapter of each accepted scheme
BackendOf(scheme) ==
    IF scheme \in PG_SCHEMES THEN {"PgAdapter", "Pg2Adapter"}
    ELSE IF scheme \in MYSQL_SCHEMES THEN {"MysqlAdapter"}
    ELSE IF scheme \in MSSQL_SCHEMES THEN {"MssqlAdapter"}
    ELSE {}

\* C19: get_db_adapter on a plain URL returns an adapter of the backend of
\* the scheme for each of postgresql, postgres, pg, mysql, mariadb, mssql,
\* mssqls when a driver of that backend is available, and raises for every
\* other scheme
C19_AcceptedSchemes ==
    (op.call = "get_db_adapter" /\ op.args.url.extra = "") =>
        /\ (BackendOf(op.args.url.scheme) \cap op.args.available # {}) =>
               (op.error = NoError /\ op.adapter \in BackendOf(op.args.url.scheme))
        /\ (BackendOf(op.args.url.scheme) = {}) => (op.error # NoError /\ op.adapter = None)

\* C20: a load_from_csv that returned gives the rowcount of the cursor on
\* which the bulk-load statement was executed
C20_ReturnsRowsAffected ==
    (op.call = "load_from_csv" /\ op.pc = "returned" /\ op.error = NoError) =>
        op.count = op.executed

(***************************************************************************)
(* csv_pg/base.py, from_csv.py: the csv file of one job (SpecFile).  The   *)
(* file is the sequence of its characters, BOM standing for U+FEFF;       *)
(* txt is the job's view of it: the arguments, txt_reader's position, the  *)
(* csv settings, the header row read and the data streamed to the copy.    *)
(***************************************************************************)
BOM == "BOM"

\* the csv files: empty; a,b with a row; the same after a BOM; a;b; the
\* same after a BOM; one column
FileContents ==
    {<<>>,
     <<"a", ",", "b", "\n", "1", ",", "2", "\n">>,
     <<BOM, "a", ",", "b", "\n", "1", ",", "2", "\n">>,
     <<"a", ";", "b", "\n">>,
     <<BOM, "a", ";", "b", "\n">>,
     <<"a", "\n", "1", "\n">>}

\* open(self.file, "r", newline="", encoding=self.encoding): utf-8-sig
\* drops a leading BOM, utf-8 keeps it
Decode(content, encoding) ==
    IF encoding = "utf-8-sig" /\ content # <<>> /\ Head(content) = BOM THEN Tail(content)
    ELSE content

\* a csv dialect: its delimiter, quotechar and escapechar
Dialect(delimiter, quotechar, escapechar) ==
    [delimiter |-> delimiter, quotechar |-> quotechar, escapechar |-> escapechar]

NoDialect == Dialect(None, None, None)

DialectNames == {"excel", "excel-tab", "unix", "excel-fr"}

\* get_dialect(name) for a name csv knows (excel-fr is registered on demand)
GetDialect(name) ==
    IF name = "excel-tab" THEN Dialect("\t", "\"", None)
    ELSE IF name = "excel-fr" THEN Dialect(";", "\"", None)
    ELSE Dialect(",", "\"", None)

\* the first element of locale.getdefaultlocale()
Locales == {None, "en_US", "fr_FR"}

\* get_default_dialect_name, no excel-<lang> dialect being registered
DefaultDialectName(loc) == IF loc = "fr_FR" THEN "excel-fr" ELSE "excel"

\* csv.Sniffer().sniff(sample, delimiters=[";", ",", "|", "\t"]): the
\* candidate the sample holds, or None when it holds none (csv.Error)
SniffDelimiter(chars) ==
    IF "," \in Range(chars) THEN ","
    ELSE IF ";" \in Range(chars) THEN ";"
    ELSE None

\* the arguments of the job that bear on the file
FileArgs ==
    [kind : {"from_csv", "to_csv"}, encoding : {"utf-8", "utf-8-sig"}, noheader : BOOLEAN,
     dialect : {None, "excel", "excel-fr", "nope"}, delimiter : {None, "|"}, quote : {None, "'"},
     escape : {None, "\\"}, locale : Locales, content : FileContents]

\* what prepare_csv_params leaves: the exception, the dialect and the settings
CsvParams(err, dialect, delimiter, quote, escape) ==
    [error |-> err, dialect |-> dialect, delimiter |-> delimiter, quote |-> quote,
     escape |-> escape]

\* prepare_csv_params, first part: the dialect named, sniffed or of the locale
ResolveDialect(a, chars) ==
    IF a.dialect # None
    THEN IF a.dialect \in DialectNames
         THEN [error |-> NoError, dialect |-> GetDialect(a.dialect)]
         ELSE [error |-> Err("csv.Error", "unknown dialect", <<>>), dialect |-> NoDialect]
    ELSE IF a.delimiter = None /\ a.quote = None /\ a.escape = None
    THEN IF a.kind = "from_csv"
         THEN IF SniffDelimiter(chars) = None
              THEN [error |-> Err("csv.Error", "Could not determine delimiter", <<>>),
                    dialect |-> NoDialect]
              ELSE [error |-> NoError, dialect |-> Dialect(SniffDelimiter(chars), "\"", None)]
         ELSE IF a.locale = None
              THEN [error |-> Err("TypeError", "expected string or bytes-like object", <<>>),
                    dialect |-> NoDialect]
              ELSE [error |-> NoError, dialect |-> GetDialect(DefaultDialectName(a.locale))]
    ELSE [error |-> NoError, dialect |-> NoDialect]

AttributeErrorOnNone(name) ==
    Err("AttributeError", "'NoneType' object has no attribute", <<name>>)

\* prepare_csv_params, second part: delimiter, quote, escape in this order,
\* each read from self.dialect when it was not given
FillParams(a, d) ==
    LET delimiter == IF a.delimiter # None THEN a.delimiter ELSE d.delimiter
        quote == IF a.quote # None THEN a.quote ELSE d.quotechar
        escape == IF a.escape # None THEN a.escape
                  ELSE IF d.escapechar # None THEN d.escapechar ELSE quote
    IN IF d = NoDialect /\ a.delimiter = None
       THEN CsvParams(AttributeErrorOnNone("delimiter"), d, None, a.quote, a.escape)
       ELSE IF d = NoDialect /\ a.quote = None
       THEN CsvParams(AttributeErrorOnNone("quotechar"), d, delimiter, None, a.escape)
       ELSE IF d = NoDialect /\ a.escape = None
       THEN CsvParams(AttributeErrorOnNone("escapechar"), d, delimiter, quote, None)
       ELSE CsvParams(NoError, d, delimiter, quote, escape)

\* prepare_csv_params
PrepareCsvParamsOf(a, chars) ==
    LET r == ResolveDialect(a, chars)
    IN IF r.error # NoError THEN CsvParams(r.error, NoDialect, a.delimiter, a.quote, a.escape)
       ELSE FillParams(a, r.dialect)

\* the characters of the first line from position pos (0-based), without
\* its end of line
RECURSIVE LineFrom(_, _)
LineFrom(chars, pos) ==
    IF pos >= Len(chars) \/ chars[pos + 1] = "\n" THEN <<>>
    ELSE <<chars[pos + 1]>> \o LineFrom(chars, pos + 1)

\* the fields of a line: the characters between the delimiters
RECURSIVE SplitFields(_, _, _)
SplitFields(line, delimiter, field) ==
    IF line = <<>> THEN <<field>>
    ELSE IF Head(line) = delimiter THEN <<field>> \o SplitFields(Tail(line), delimiter, <<>>)
    ELSE SplitFields(Tail(line), delimiter, Append(field, Head(line)))

\* ignore_bom: the position after it, from position 0
IgnoreBom(chars, encoding) ==
    IF encoding = "utf-8" /\ chars # <<>> /\ chars[1] = BOM THEN 1 ELSE 0

NoTxt ==
    [pc |-> "new", chars |-> <<>>, pos |-> 0, error |-> NoError,
     dialect |-> NoDialect, delimiter |-> None, quote |-> None, escape |-> None,
     header |-> <<>>, headerAt |-> NoInt, copyAt |-> NoInt, streamed |-> <<>>]

InitFile ==
    /\ txt \in {[args |-> a, run |-> NoTxt] : a \in FileArgs}
    /\ scan = "idle" /\ op = "idle" /\ ddl = "idle"
    /\ target = <<>>
    /\ other = <<>>
    /\ selfColumns = <<>>
    /\ result = NoResult
    /\ MergeTraceIdle
    /\ JobIdle
    /\ LoadIdle

fileRest == <<scan, op, ddl, colVars, jobVars, loadVars>>

\* from_csv: open(self.file, "r", newline="", encoding=self.encoding); to_csv
\* opens nothing before prepare_csv_params
FileOpen ==
    /\ txt.run.pc = "new"
    /\ txt' = [txt EXCEPT !.run.pc = "params",
                          !.run.chars = IF txt.args.kind = "from_csv"
                                        THEN Decode(txt.args.content, txt.args.encoding)
                                        ELSE <<>>]
    /\ UNCHANGED fileRest

\* prepare_csv_params; the sniffing reads the file and moves back to the top
FilePrepareCsvParams ==
    /\ txt.run.pc = "params"
    /\ LET r == PrepareCsvParamsOf(txt.args, txt.run.chars)
       IN txt' = [txt EXCEPT !.run.error = r.error,
                             !.run.dialect = r.dialect,
                             !.run.delimiter = r.delimiter,
                             !.run.quote = r.quote,
                             !.run.escape = r.escape,
                             !.run.pos = 0,
                             !.run.pc = IF r.error # NoError THEN "raised"
                                        ELSE IF txt.args.kind = "to_csv" THEN "returned"
                                        ELSE IF txt.args.noheader THEN "copy"
                                        ELSE "header"]
    /\ UNCHANGED fileRest

\* get_file_columns: ignore_bom, next(self.csv_reader), seek(0)
FileGetColumns ==
    /\ txt.run.pc = "header"
    /\ LET at == IgnoreBom(txt.run.chars, txt.args.encoding)
       IN IF at >= Len(txt.run.chars)
          THEN txt' = [txt EXCEPT !.run.error = Err("StopIteration", "", <<>>),
                                  !.run.pos = at,
                                  !.run.headerAt = at,
                                  !.run.pc = "raised"]
          ELSE txt' = [txt EXCEPT !.run.header = SplitFields(LineFrom(txt.run.chars, at),
                                                             txt.run.delimiter, <<>>),
                                  !.run.headerAt = at,
                                  !.run.pos = 0,
                                  !.run.pc = "copy"]
    /\ UNCHANGED fileRest

\* copy_from: while data := self.txt_reader.read(self.blocksize): copy.write(data)
FileCopy ==
    /\ txt.run.pc = "copy"
    /\ txt' = [txt EXCEPT !.run.copyAt = txt.run.pos,
                          !.run.streamed = SubSeq(txt.run.chars, txt.run.pos + 1,
                                                  Len(txt.run.chars)),
                          !.run.pos = Len(txt.run.chars),
                          !.run.pc = "returned"]
    /\ UNCHANGED fileRest

NextFile ==
    \/ FileOpen
    \/ FilePrepareCsvParams
    \/ FileGetColumns
    \/ FileCopy

SpecFile == InitFile /\ [][NextFile]_vars

(***************************************************************************)
(* Claims on the csv file (SpecFile).                                      *)
(***************************************************************************)
\* C21: from_csv on a utf-8 file: a leading BOM is neither in the first
\* header name read nor in the data streamed to the copy; without a BOM the
\* header is read from position 0 and the copy streams from position 0
C21_BomConsumedOnce ==
    (/\ txt.args.kind = "from_csv"
     /\ txt.args.encoding = "utf-8"
     /\ txt.run.pc = "returned") =>
        IF txt.args.content # <<>> /\ Head(txt.args.content) = BOM
        THEN /\ (~txt.args.noheader => BOM \notin Range(txt.run.header[1]))
             /\ BOM \notin Range(txt.run.streamed)
        ELSE /\ (~txt.args.noheader => txt.run.headerAt = 0)
             /\ txt.run.copyAt = 0

\* C22: prepare_csv_params with a known dialect name or none, when neither
\* the sniffing nor the locale fails: it does not raise, delimiter, quote
\* and escape are defined, a given value is kept, an omitted delimiter or
\* quote is the dialect's, an omitted escape is the dialect's or the quote
C22_CsvParamsDefined ==
    (/\ txt.run.pc \notin {"new", "params"}
     /\ txt.args.dialect \in DialectNames \cup {None}
     /\ txt.run.error \notin {Err("csv.Error", "Could not determine delimiter", <<>>),
                             Err("TypeError", "expected string or bytes-like object", <<>>),
                             Err("StopIteration", "", <<>>)}) =>
        /\ txt.run.error = NoError
        /\ txt.run.delimiter # None /\ txt.run.quote # None /\ txt.run.escape # None
        /\ (txt.args.delimiter # None => txt.run.delimiter = txt.args.delimiter)
        /\ (txt.args.quote # None => txt.run.quote = txt.args.quote)
        /\ (txt.args.escape # None => txt.run.escape = txt.args.escape)
        /\ (txt.args.delimiter = None => txt.run.delimiter = txt.run.dialect.delimiter)
        /\ (txt.args.quote = None => txt.run.quote = txt.run.dialect.quotechar)
        /\ (txt.args.escape = None =>
               txt.run.escape = IF txt.run.dialect.escapechar # None
                                THEN txt.run.dialect.escapechar ELSE txt.run.quote)

(***************************************************************************)
(* csv_pg/from_csv.py, build_create_table_query (SpecDdl).  The statement  *)
(* is the sequence of the pieces of text appended to query; ddl holds the  *)
(* two lists of columns, the loop index and what the loop has built.       *)
(***************************************************************************)
MaxDdl == 2

\* the columns the lists are made of: id:bigint:pk:seq, k:int:pk, a:index,
\* d:decimal(10,2):default(0)
DdlColumns ==
    {Column("id", "bigint", NoInt, NoInt, TRUE, TRUE, FALSE, DEFAULT_SEQ, FALSE),
     Column("k", "int", NoInt, NoInt, TRUE, TRUE, FALSE, None, FALSE),
     Column("a", None, NoInt, NoInt, FALSE, FALSE, TRUE, None, FALSE),
     Column("d", "decimal", 10, 2, FALSE, FALSE, FALSE, "0", FALSE)}

\* lists of at most MaxDdl columns with distinct slugs
DdlLists ==
    {l \in UNION {[1..n -> DdlColumns] : n \in 0..MaxDdl} :
        \A i, j \in 1..Len(l) : l[i].slug = l[j].slug => i = j}

\* sum(1 if column.primarykey else 0 for column in columns)
NbPrimaryKeys(columns) == Cardinality({i \in 1..Len(columns) : columns[i].primarykey})

INLINE_PRIMARY_KEY == " primary key"
MULTI_PRIMARY_KEY == ",primary key ("

\* the loop body up to the primary key: name, type, size, not null, default
ColumnPieces(index, column) ==
    <<IF index >= 1 THEN "," ELSE "", column.slug>>
    \o <<IF column.default = DEFAULT_SEQ
         THEN IF column.datatype = "bigint" THEN "bigserial" ELSE "serial"
         ELSE IF column.datatype # None THEN column.datatype
         ELSE "text">>
    \o (IF IsInt(column.precision) /\ IsInt(column.scale)
        THEN <<"(" \o IntText(column.precision) \o "," \o IntText(column.scale) \o ")">>
        ELSE IF IsInt(column.precision) THEN <<"(" \o IntText(column.precision) \o ")">>
        ELSE <<>>)
    \o (IF column.notnull THEN <<" not null">> ELSE <<>>)
    \o (IF column.default # None /\ column.default # DEFAULT_SEQ
        THEN <<" default " \o column.default>> ELSE <<>>)

NoDdl == [pc |-> "new", index |-> 0, nbPrimaryKeys |-> 0, query |-> <<>>,
          queryMultiPrimaryKey |-> <<>>, queryIndexes |-> <<>>]

InitDdl ==
    /\ ddl \in {[columnsDefault |-> p[1], columns |-> p[2], run |-> NoDdl] :
                   p \in {q \in DdlLists \X DdlLists :
                             \A i \in 1..Len(q[1]), j \in 1..Len(q[2]) :
                                 q[1][i].slug # q[2][j].slug}}
    /\ scan = "idle" /\ op = "idle" /\ txt = "idle"
    /\ target = <<>>
    /\ other = <<>>
    /\ selfColumns = <<>>
    /\ result = NoResult
    /\ MergeTraceIdle
    /\ JobIdle
    /\ LoadIdle

ddlRest == <<scan, op, txt, colVars, jobVars, loadVars>>

\* the statements before the loop
DdlBegin ==
    /\ ddl.run.pc = "new"
    /\ ddl' = [ddl EXCEPT !.run.pc = "loop",
                          !.run.nbPrimaryKeys = NbPrimaryKeys(ddl.columns)]
    /\ UNCHANGED ddlRest

\* one turn of "for index, column in enumerate(self.columns_default + self.columns)"
DdlColumn ==
    /\ ddl.run.pc = "loop"
    /\ ddl.run.index < Len(ddl.columnsDefault \o ddl.columns)
    /\ LET column == (ddl.columnsDefault \o ddl.columns)[ddl.run.index + 1]
           inline == column.primarykey /\ ddl.run.nbPrimaryKeys = 1
       IN ddl' = [ddl EXCEPT
                    !.run.index = @ + 1,
                    !.run.query = @ \o ColumnPieces(ddl.run.index, column)
                                    \o (IF inline THEN <<INLINE_PRIMARY_KEY>> ELSE <<>>),
                    !.run.queryMultiPrimaryKey =
                        IF column.primarykey /\ ~inline THEN Append(@, column.slug) ELSE @,
                    !.run.queryIndexes = IF column.index THEN Append(@, column.slug) ELSE @]
    /\ UNCHANGED ddlRest

\* the statements after the loop
DdlEnd ==
    /\ ddl.run.pc = "loop"
    /\ ddl.run.index = Len(ddl.columnsDefault \o ddl.columns)
    /\ ddl' = [ddl EXCEPT
                 !.run.pc = "done",
                 !.run.query = @ \o (IF ddl.run.queryMultiPrimaryKey # <<>>
                                     THEN <<MULTI_PRIMARY_KEY>> \o ddl.run.queryMultiPrimaryKey
                                          \o <<")">>
                                     ELSE <<>>)]
    /\ UNCHANGED ddlRest

NextDdl ==
    \/ DdlBegin
    \/ DdlColumn
    \/ DdlEnd

SpecDdl == InitDdl /\ [][NextDdl]_vars

(***************************************************************************)
(* Claims on the create table statement (SpecDdl).                         *)
(***************************************************************************)
\* the number of pieces of the statement equal to piece
CountPieces(query, piece) == Cardinality({i \in 1..Len(query) : query[i] = piece})

\* C23: the statement built declares no primary key when no emitted column
\* (default-only, then source) is one, one inline primary key when exactly
\* one is, and one trailing composite clause when several are
C23_OnePrimaryKeyDeclaration ==
    ddl.run.pc = "done" =>
        LET n == NbPrimaryKeys(ddl.columnsDefault \o ddl.columns)
            inline == CountPieces(ddl.run.query, INLINE_PRIMARY_KEY)
            trailing == CountPieces(ddl.run.query, MULTI_PRIMARY_KEY)
        IN /\ n = 0 => inline = 0 /\ trailing = 0
           /\ n = 1 => inline = 1 /\ trailing = 0
           /\ n > 1 => inline = 0 /\ trailing = 1

====
